---- MODULE Spec2Model ----
(***************************************************************************)
(* Model of the langkit Anki add-on's process supervisor                   *)
(* (anki-addon/process_manager.py, class ProcessManager) and artifact      *)
(* manager (anki-addon/binary_manager.py, class BinaryManager).            *)
(*                                                                         *)
(* Spec    : the supervisor.  One caller thread runs start(), stop() and   *)
(*           restart(); every start() that launches a process spawns one   *)
(*           daemon monitor thread; the launched OS processes write their  *)
(*           config file and exit on their own.  Threads interleave at     *)
(*           the granularity of the statements that touch shared fields.   *)
(* SpecBM  : the artifact manager, single threaded, with every failure     *)
(*           the download can meet drawn nondeterministically.             *)
(***************************************************************************)
EXTENDS Integers, FiniteSets, Sequences, TLC

\* ------------------------------------------------------------------ bounds
\* Number of launch attempts (config files / processes / monitors) explored.
MaxLaunch == 3
\* Calls of public methods by the host plus launch attempts explored in one behaviour
\* (three calls with three launches, four calls with two launches, ...).
MaxEvents == 6
\* Number of calls explored under the fair specification (liveness).
MaxFairCalls == 2

Procs == 1..MaxLaunch
None == 0

VARIABLES
  \* ---- ProcessManager fields
  process,          \* self.process: None or the handle of launched process p
  server_config,    \* self.server_config: None or p, the config captured from p's file
  config_file,      \* self.config_file: None or the path created at attempt p
  stderr_file,      \* self.stderr_file: Unset (no attribute), None or a path
  shutdown_event,   \* self.shutdown_event.is_set()
  \* ---- operating system
  pstate,           \* per process: "new", "alive" or "exited"
  sig,              \* per process: strongest signal the supervisor delivered to it while alive
  cfgfile,          \* per attempt: whether its RuntimeConfigFile is on disk
  errfile,          \* per attempt: whether its StderrCapture file is on disk
  nlaunch,          \* number of attempts that created a config file so far
  \* ---- caller thread
  pc,               \* position of the caller thread
  op,               \* the public method being (or last) executed
  inFail,           \* stop() is running inside start()'s failure path
  ncalls,           \* number of public method calls made so far
  waitOn,           \* the Popen object stop() is blocked on in wait()
  ret,              \* what the last finished public method returned
  att,              \* record of the call in progress: the process start() launched, whether
                    \* readiness was observed, why start() failed, whether the call is a
                    \* stop() that directly follows a stop(), the running process whose
                    \* handle the supervisor held when start() was called (kept while
                    \* line 42 is evaluated), what the read of the config file in
                    \* progress found
  \* ---- monitor threads, one per launched process
  mon,
  \* ---- BinaryManager (SpecBM)
  bm,
  \* ---- the installed server binary: how it fails and what it reports (never changes)
  env,
  \* ---- an evaluation of the version comparison (SpecVer)
  ver,
  \* ---- the add-on's handlers in __init__.py driving both managers (SpecHost)
  host,
  \* ---- the dialog relay between the HTTP thread and the Qt main thread (SpecDlg)
  dlg

pmvars == <<process, server_config, config_file, stderr_file, shutdown_event,
            pstate, sig, cfgfile, errfile, nlaunch, pc, op, inFail, ncalls, waitOn,
            ret, att, mon>>
vars == <<pmvars, bm, env, ver, host, dlg>>

Unset == -1

\* What reading a RuntimeConfigFile can yield: the supervisor's initial object, text
\* that is not (yet) complete JSON, JSON whose langkit_server object lacks a port key,
\* and JSON with langkit_server holding frontend_port, api_port and ws_port.  The
\* supervised process is opaque and overwrites the file at any time while it lives,
\* so a read made after the launch can find any of these.
ConfigContents == {"initial", "invalid", "partial", "full"}

\* What open() and json.load() of lines 239-240 can meet: one of the contents, or no
\* file at the path (FileNotFoundError): the process replaces the file when it
\* rewrites it.
ReadOutcomes == ConfigContents \cup {"missing"}

NoAttempt ==
  [launched |-> None, observed |-> FALSE, why |-> "-", again |-> FALSE,
   held |-> None, saw |-> "-"]
MonOff == [pc |-> "off", polled |-> None]

\* Popen.poll() is None
Alive(p) == pstate[p] = "alive"

\* ProcessManager.is_running, evaluated in one step
is_running == process # None /\ Alive(process)

\* the required keys are all present in the parsed file (lines 244-248)
HasAllKeys(content) == content = "full"

\* f"http://localhost:{port}" (line 186), and the None of line 187
Url(port) == <<"http://localhost:", port>>
NoUrl == <<>>

\* get_frontend_url that always takes the frontend port
FrontendUrlSplitOnly(config) ==
  IF config.frontend_port # 0 THEN Url(config.frontend_port) ELSE NoUrl

\* ProcessManager.get_frontend_url (lines 175-187) on a captured config: the combined
\* port in single-port mode, else the frontend port; None without that port.
FrontendUrl(config) ==
  LET port == IF config.single_port THEN config.port ELSE config.frontend_port
  IN  IF port # 0 THEN Url(port) ELSE NoUrl

\* ============================================================ BinaryManager
\* Highest release tag explored; tag t stands for the release "v<t>".
MaxTag == 2
Tags == 1..MaxTag

\* BinaryManager.PLATFORM_MAPPING (the operating systems it names)
Platforms == {"Linux", "Windows", "Darwin"}

\* The local names the artifact can have in binaries_dir (lines 129, 162, 165).
Candidates(plat) ==
  IF plat = "Linux" THEN <<"langkit", "langkit-webkit2_41">>
  ELSE IF plat = "Windows" THEN <<"langkit-app.exe">>
  ELSE <<"langkit.app">>

Names == {"langkit", "langkit-webkit2_41", "langkit-app.exe", "langkit.app"}

Range(q) == {q[k] : k \in 1..Len(q)}

\* Content of a path in binaries_dir: Absent, t for the complete file (or bundle) of
\* release t, or Partial(t), what an interrupted extraction of release t left.
Absent == 0
Partial(t) == 0 - t

\* The langkit.app bundle is a directory (Path.is_dir), the other artifacts are files.
IsDir(name) == name = "langkit.app"

\* BinaryManager.get_binary_name: the archive of the platform (lines 54-59)
get_binary_name(plat) ==
  IF plat = "Linux" THEN "langkit-app-linux.tar.xz"
  ELSE IF plat = "Windows" THEN "langkit-app-windows.zip"
  ELSE "langkit-app-macos.zip"

\* hashlib.sha256(...).hexdigest() of the downloaded bytes: the published archive,
\* or bytes damaged on the way.  hexdigest() is lower case.
Sha256Hex(bytes) == IF bytes = "good" THEN "ab12" ELSE "77cd"

\* asset.get("digest", "").replace("sha256:", "") (line 349)
ExpectedHash(digest) ==
  CASE digest = "sha256:ab12" -> "ab12"
    [] digest = "sha256:AB12" -> "AB12"
    [] digest = "sha256:ff00" -> "ff00"
    [] OTHER -> digest

\* str.lower() on the hex strings used here
Lower(h) == IF h = "AB12" THEN "ab12" ELSE h

\* a comparison that accepts any file
_verify_checksum_any(bytes, expected_hash) == TRUE

\* BinaryManager._verify_checksum (lines 440-451)
_verify_checksum(bytes, expected_hash) ==
  Lower(Sha256Hex(bytes)) = Lower(expected_hash)

\* Digests a release asset can carry: none, the digest of the published archive in
\* lower or upper case hex, the digest of something else.
Digests == {"", "sha256:ab12", "sha256:AB12", "sha256:ff00"}

\* A release as _fetch_release_info returns it: its tag, whether it lists the
\* platform's asset, the asset's digest, the candidate binaries its archive holds, and
\* whether the tar archive records the execute bit for them (tarfile restores the
\* recorded mode; the zip archives of the other platforms carry no mode that
\* ZipFile.extractall would apply).
Releases(plat) ==
  [tag : Tags, asset : BOOLEAN, digest : Digests,
   members : SUBSET Range(Candidates(plat)),
   xmode : IF plat = "Linux" THEN BOOLEAN ELSE {FALSE}]

NoRelease == [tag |-> 0, asset |-> FALSE, digest |-> "", members |-> {}, xmode |-> FALSE]

\* config["binary_path"]: not configured, or configured with a path that exists or
\* one that does not.
Overrides == {"none", "present", "missing"}

\* ----------------------------------------------------- version comparison
\* Version strings are sequences of characters.  A tag is an optional "v" followed by
\* one to MaxSegs segments joined by "."; the segments explored are the numbers 0, 1,
\* 2, 9 and 10 and the text "b" (as in a beta tag).
MaxSegs == 3

SegTexts == {<<"0">>, <<"1">>, <<"2">>, <<"9">>, <<"1", "0">>, <<"b">>}

RECURSIVE JoinDots(_)
JoinDots(segs) ==
  IF Len(segs) = 1 THEN segs[1] ELSE segs[1] \o <<".">> \o JoinDots(Tail(segs))

TagText(v, segs) == (IF v THEN <<"v">> ELSE <<>>) \o JoinDots(segs)

VersionTags ==
  { TagText(v, segs) : v \in BOOLEAN, segs \in UNION {[1..n -> SegTexts] : n \in 1..MaxSegs} }

\* config.get("last_known_version") when nothing was installed yet
NoTag == <<>>

\* The decimal digits, in order: DigitChars[d + 1] is the character of d.
DigitChars == <<"0", "1", "2", "3", "4", "5", "6", "7", "8", "9">>

\* str.isdigit on one character
IsDigit(c) == \E k \in 1..Len(DigitChars) : DigitChars[k] = c

DigitVal(c) == (CHOOSE k \in 1..Len(DigitChars) : DigitChars[k] = c) - 1

\* int() of a non-empty string of digits
RECURSIVE IntOf(_)
IntOf(ds) ==
  IF Len(ds) = 0 THEN 0
  ELSE IntOf(SubSeq(ds, 1, Len(ds) - 1)) * 10 + DigitVal(ds[Len(ds)])

\* str.split('.'): the parts between the dots, in order
RECURSIVE SplitDots(_, _)
SplitDots(str, part) ==
  IF Len(str) = 0 THEN <<part>>
  ELSE IF Head(str) = "." THEN <<part>> \o SplitDots(Tail(str), <<>>)
  ELSE SplitDots(Tail(str), Append(part, Head(str)))

\* the loop of parse_version (lines 37-46): of each part the digits are kept; a part
\* with digits contributes their integer, a part without any contributes nothing
RECURSIVE VersionParts(_)
VersionParts(parts) ==
  IF Len(parts) = 0 THEN <<>>
  ELSE LET numeric_part == SelectSeq(Head(parts), IsDigit)
       IN  (IF Len(numeric_part) # 0 THEN <<IntOf(numeric_part)>> ELSE <<>>)
             \o VersionParts(Tail(parts))

\* parse_version (lines 27-48)
parse_version(v_str) ==
  LET stripped == IF Len(v_str) # 0 /\ Head(v_str) = "v" THEN Tail(v_str) ELSE v_str
  IN  VersionParts(SplitDots(stripped, <<>>))

\* Python's a > b on tuples of integers: the first differing item decides, and a
\* tuple that extends the other is the greater one
RECURSIVE TupleGreater(_, _)
TupleGreater(a, b) ==
  IF Len(a) = 0 THEN FALSE
  ELSE IF Len(b) = 0 THEN TRUE
  ELSE IF Head(a) # Head(b) THEN Head(a) > Head(b)
  ELSE TupleGreater(Tail(a), Tail(b))

\* _fetch_release_info returned None (line 315), so there is no tag to look at
FetchFailed == <<"no release">>

\* a release whose JSON has "tag_name": null
NullTag == <<"null">>

\* parse_version(latest) > parse_version(current) (line 293)
Newer(latest, current) == TupleGreater(parse_version(latest), parse_version(current))

\* str.lstrip("v") (line 428): every leading "v" is removed
RECURSIVE LStripV(_)
LStripV(str) ==
  IF Len(str) # 0 /\ Head(str) = "v" THEN LStripV(Tail(str)) ELSE str

\* The tag_name of release t, "v<t>", and what _download_binary stores as
\* last_known_version after it installed that release (line 428).
TagName(t) == <<"v", DigitChars[t + 1]>>

\* A variant of StoredVersion that keeps the tag as the release gives it.
StoredVersionUnstripped(tag_name) == tag_name
StoredVersion(tag_name) == LStripV(tag_name)

\* BinaryManager.check_for_updates (lines 279-299) when the release fetched has tag
\* latest_version (or the fetch failed): that tag when an update is to be offered,
\* else None (NoTag).  A null tag is returned as it is (None) without a known
\* version, and otherwise makes parse_version raise, which line 296 catches.
check_for_updates(latest_version, current_version) ==
  IF latest_version = FetchFailed THEN NoTag
  ELSE IF current_version = NoTag
    THEN IF latest_version = NullTag THEN NoTag ELSE latest_version
  ELSE IF latest_version = NullTag THEN NoTag
  ELSE IF Newer(latest_version, current_version) THEN latest_version
  ELSE NoTag

\* The state of a BinaryManager in binaries_dir, nothing installed, idle.
BMFresh(plat) ==
  [pc |-> "idle", platform |-> plat,
   disk |-> [n \in Names |-> Absent],      \* the artifact paths
   bak |-> [n \in Names |-> Absent],       \* the "<name>.backup" paths
   tmp |-> FALSE,                          \* "<archive>.tmp" exists
   last_known_version |-> NoTag,           \* config["last_known_version"], or not set
   cache |-> "",                           \* _working_binary_cache, "": None
   override |-> "none",                    \* config["binary_path"]
   xbit |-> {},                            \* Linux variants with the execute bit
   bakx |-> {},                            \* backups with the execute bit (copy2)
   cancel |-> FALSE,                       \* progress.wasCanceled()
   got |-> 0,                              \* blocks urlretrieve has stored
   seen |-> "",                            \* the last variant a probe found working
   works |-> {},                           \* <<name, tag>>: that binary answers --version
   op |-> "none", ret |-> "-", why |-> "-", ncalls |-> 0,
   backed |-> <<>>,                        \* backed_up_files
   k |-> 0,                                \* loop index
   rel |-> NoRelease,                      \* release_info of the download in progress
   bytes |-> "-",                          \* what urlretrieve stored in the temp file
   pre |-> [n \in Names |-> Absent],       \* binaries_dir when update_binary was called
   dpre |-> [n \in Names |-> Absent],      \* binaries_dir when _download_binary was called
   vpre |-> NoTag]                           \* last_known_version when the call was made

\* -------------------------------------------------- the supervised binary
\* Exit codes of a process that exits by itself: an ordinary failure, and the
\* "command not runnable" sentinel tested at line 213.
ExitCodes == {1, 127}

\* What the process wrote to its stderr before it exited: nothing, a message without
\* any of the patterns of lines 312-329, a message with one of them as listed
\* ("error while loading shared libraries"), the same in other letter case.
StderrTexts == {"", "panic", "error while loading", "ERROR WHILE LOADING"}

\* str.lower() on these texts (line 331)
LowerText(t) == IF t = "ERROR WHILE LOADING" THEN "error while loading" ELSE t

\* ProcessManager._is_linking_error (lines 307-332)
_is_linking_error(stderr) ==
  IF stderr = "" THEN FALSE ELSE LowerText(stderr) = LowerText("error while loading")

\* The JSON object the server writes into the RuntimeConfigFile when it is ready:
\* langkit_server with the three required ports, in split or in single-port mode
\* (with the combined port or, malformed, without it).  0 stands for a missing key.
ServerConfigs ==
  { [frontend_port |-> 8001, api_port |-> 8002, ws_port |-> 8003,
     single_port |-> FALSE, port |-> 0],
    [frontend_port |-> 8001, api_port |-> 8002, ws_port |-> 8003,
     single_port |-> TRUE, port |-> 8000],
    [frontend_port |-> 8001, api_port |-> 8002, ws_port |-> 8003,
     single_port |-> TRUE, port |-> 0] }

\* How the installed binary behaves on this host: its exit code and stderr when it
\* exits by itself, and the config it reports when it gets ready.
Envs == [code : ExitCodes, text : StderrTexts, config : ServerConfigs]

DefaultEnv ==
  [code |-> 1, text |-> "panic",
   config |-> [frontend_port |-> 8001, api_port |-> 8002, ws_port |-> 8003,
               single_port |-> FALSE, port |-> 0]]

\* ProcessManager.get_frontend_url: nothing without a captured config, otherwise the
\* URL of the config captured from the server's file.
get_frontend_url == IF server_config = None THEN NoUrl ELSE FrontendUrl(env.config)

\* no version comparison under evaluation
NoVer == [pc |-> "off"]

\* no add-on handler under evaluation
NoHost == [pc |-> "off"]

\* no dialog request under evaluation
NoDlg == [pc |-> "off"]

InitPM ==
  /\ process = None
  /\ server_config = None
  /\ config_file = None
  /\ stderr_file = Unset
  /\ shutdown_event = FALSE
  /\ pstate = [p \in Procs |-> "new"]
  /\ sig = [p \in Procs |-> "none"]
  /\ cfgfile = [p \in Procs |-> FALSE]
  /\ errfile = [p \in Procs |-> FALSE]
  /\ nlaunch = 0
  /\ pc = "idle"
  /\ op = "none"
  /\ inFail = FALSE
  /\ ncalls = 0
  /\ waitOn = None
  /\ ret = "-"
  /\ att = NoAttempt
  /\ mon = [p \in Procs |-> MonOff]

\* The operating systems ProcessManager tells apart (lines 80, 127): Windows and the
\* others.
HostPlatforms == {"Linux", "Windows"}

\* The state after ProcessManager() and BinaryManager() were constructed on a host.
Init ==
  /\ InitPM
  /\ \E plat \in HostPlatforms : bm = BMFresh(plat)
  /\ env = DefaultEnv
  /\ ver = NoVer
  /\ host = NoHost
  /\ dlg = NoDlg

\* ------------------------------------------------------------ caller thread
\* The host calls one of the public methods.
CallStart ==
  /\ pc = "idle"
  /\ ncalls + nlaunch < MaxEvents
  /\ ncalls' = ncalls + 1
  /\ pc' = "s_check"
  /\ op' = "start"
  /\ ret' = "-"
  /\ att' = [NoAttempt EXCEPT !.held = IF is_running THEN process ELSE None]
  /\ UNCHANGED <<process, server_config, config_file, stderr_file, shutdown_event,
                 pstate, sig, cfgfile, errfile, nlaunch, inFail, waitOn, mon, bm, env, ver, host, dlg>>

CallStop ==
  /\ pc = "idle"
  /\ ncalls + nlaunch < MaxEvents
  /\ ncalls' = ncalls + 1
  /\ pc' = "t_set"
  /\ op' = "stop"
  /\ ret' = "-"
  /\ att' = [NoAttempt EXCEPT !.again = (op = "stop")]
  /\ UNCHANGED <<process, server_config, config_file, stderr_file, shutdown_event,
                 pstate, sig, cfgfile, errfile, nlaunch, inFail, waitOn, mon, bm, env, ver, host, dlg>>

\* restart(): stop(), sleep(1), start()
CallRestart ==
  /\ pc = "idle"
  /\ ncalls + nlaunch < MaxEvents
  /\ ncalls' = ncalls + 1
  /\ pc' = "t_set"
  /\ op' = "restart"
  /\ ret' = "-"
  /\ att' = NoAttempt
  /\ UNCHANGED <<process, server_config, config_file, stderr_file, shutdown_event,
                 pstate, sig, cfgfile, errfile, nlaunch, inFail, waitOn, mon, bm, env, ver, host, dlg>>

\* start(), line 42: is_running() reads self.process a first time.
StartCheck ==
  /\ pc = "s_check"
  /\ pc' = IF process = None THEN "s_prep" ELSE "s_check2"
  /\ att' = IF process = None THEN [att EXCEPT !.held = None] ELSE att
  /\ UNCHANGED <<process, server_config, config_file, stderr_file, shutdown_event,
                 pstate, sig, cfgfile, errfile, nlaunch, op, inFail, ncalls, waitOn,
                 ret, mon, bm, env, ver, host, dlg>>

\* start(), line 42 continued: is_running() reads self.process again and polls it.
\* A handle cleared in between raises AttributeError out of start(); a live process
\* makes start() return True at once (line 43).
StartCheck2 ==
  /\ pc = "s_check2"
  /\ IF process = None
       THEN /\ pc' = "idle" /\ ret' = "raised"
       ELSE IF Alive(process)
         THEN /\ pc' = "idle" /\ ret' = "True"
         ELSE /\ pc' = "s_prep" /\ ret' = ret
  /\ att' = [att EXCEPT !.held = None]
  /\ UNCHANGED <<process, server_config, config_file, stderr_file, shutdown_event,
                 pstate, sig, cfgfile, errfile, nlaunch, op, inFail, ncalls, waitOn,
                 mon, bm, env, ver, host, dlg>>

\* start(), lines 46-65: both temporary files are created and the initial config is
\* written.  mkstemp can raise (lines 115-118 then run): the first one before any
\* file exists, the second one after the still empty config file was created.
StartPrepare ==
  /\ pc = "s_prep"
  /\ \/ /\ nlaunch < MaxLaunch /\ ncalls + nlaunch < MaxEvents
        /\ nlaunch' = nlaunch + 1
        /\ config_file' = nlaunch + 1
        /\ stderr_file' = nlaunch + 1
        /\ cfgfile' = [cfgfile EXCEPT ![nlaunch + 1] = TRUE]
        /\ errfile' = [errfile EXCEPT ![nlaunch + 1] = TRUE]
        /\ pc' = "s_launch"
        /\ inFail' = inFail
        /\ att' = att
     \/ /\ nlaunch < MaxLaunch /\ ncalls + nlaunch < MaxEvents
        /\ nlaunch' = nlaunch + 1
        /\ config_file' = nlaunch + 1
        /\ cfgfile' = [cfgfile EXCEPT ![nlaunch + 1] = TRUE]
        /\ UNCHANGED <<stderr_file, errfile>>
        /\ pc' = "t_set"
        /\ inFail' = TRUE
        /\ att' = [att EXCEPT !.why = "mkstemp"]
     \/ /\ UNCHANGED <<nlaunch, config_file, stderr_file, cfgfile, errfile>>
        /\ pc' = "t_set"
        /\ inFail' = TRUE
        /\ att' = [att EXCEPT !.why = "mkstemp"]
  /\ UNCHANGED <<process, server_config, shutdown_event, pstate, sig, op, ncalls,
                 waitOn, ret, mon, bm, env, ver, host, dlg>>

\* start(), lines 83-90: Popen launches the process and stores the handle, or raises
\* (the executable is missing or not runnable), which runs lines 115-118.
StartLaunch ==
  /\ pc = "s_launch"
  /\ \/ /\ process' = config_file
        /\ pstate' = [pstate EXCEPT ![config_file] = "alive"]
        /\ att' = [att EXCEPT !.launched = config_file]
        /\ pc' = "s_spawn"
        /\ inFail' = inFail
     \/ /\ UNCHANGED <<process, pstate>>
        /\ att' = [att EXCEPT !.why = "popen"]
        /\ pc' = "t_set"
        /\ inFail' = TRUE
  /\ UNCHANGED <<server_config, config_file, stderr_file, shutdown_event, sig, cfgfile,
                 errfile, nlaunch, op, ncalls, waitOn, ret, mon, bm, env, ver, host, dlg>>

\* start(), lines 96-98: the shutdown flag is cleared and a new monitor thread runs.
StartSpawn ==
  /\ pc = "s_spawn"
  /\ shutdown_event' = FALSE
  /\ mon' = [mon EXCEPT ![att.launched] = [pc |-> "M1", polled |-> None]]
  /\ pc' = "w_poll"
  /\ UNCHANGED <<process, server_config, config_file, stderr_file, pstate, sig, cfgfile,
                 errfile, nlaunch, op, inFail, ncalls, waitOn, ret, att, bm, env, ver, host, dlg>>

\* _wait_for_ports, lines 193 and 259-265: the deadline has passed when the loop
\* condition is evaluated; the wait returns False and start() calls stop() (lines
\* 101-103).
WaitTimeout ==
  /\ pc = "w_poll"
  /\ pc' = "t_set"
  /\ inFail' = TRUE
  /\ att' = [att EXCEPT !.why = "timeout"]
  /\ UNCHANGED <<process, server_config, config_file, stderr_file, shutdown_event,
                 pstate, sig, cfgfile, errfile, nlaunch, op, ncalls, waitOn, ret,
                 mon, bm, env, ver, host, dlg>>

\* _wait_for_ports, lines 193-194: within the deadline, is_running() decides: the
\* process is gone (the died branch runs), or the poll goes on to read the file.
WaitPoll ==
  /\ pc = "w_poll"
  /\ pc' = IF is_running THEN "w_read" ELSE "w_died"
  /\ UNCHANGED <<process, server_config, config_file, stderr_file, shutdown_event,
                 pstate, sig, cfgfile, errfile, nlaunch, op, inFail, ncalls, waitOn,
                 ret, att, mon, bm, env, ver, host, dlg>>

\* The exit code the died branch ends with (lines 196, 209-210): the return code when
\* self.process is still set, None when a monitor has cleared it.  The handle can
\* only be cleared during the wait, so the read of line 209 adds nothing to the one
\* of line 196.
DiedExitCode == IF process # None THEN env.code ELSE None

\* _read_stderr() in the died branch (lines 202-206): what the launched process wrote
\* to the stderr file of this attempt; a process that has not exited wrote nothing.
DiedStderr ==
  IF att.launched # None /\ pstate[att.launched] = "exited" THEN env.text ELSE ""

\* _wait_for_ports, lines 196-236: the died branch collects the exit code and the
\* stderr text, shows the missing-libraries dialog or the generic one (line 213),
\* and returns False; start() then calls stop() (line 102).
WaitDied ==
  /\ pc = "w_died"
  /\ att' = [att EXCEPT !.why =
               IF DiedExitCode = 127 \/ _is_linking_error(DiedStderr)
                 THEN "died: missing libraries" ELSE "died: generic"]
  /\ pc' = "t_set"
  /\ inFail' = TRUE
  /\ UNCHANGED <<process, server_config, config_file, stderr_file, shutdown_event,
                 pstate, sig, cfgfile, errfile, nlaunch, op, ncalls, waitOn, ret,
                 mon, bm, env, ver, host, dlg>>

\* _wait_for_ports, lines 238-240: the config file is opened and parsed.
WaitRead ==
  /\ pc = "w_read"
  /\ \E c \in ReadOutcomes :
       /\ ~cfgfile[config_file] => c = "missing"
       /\ att' = [att EXCEPT !.saw = c]
  /\ pc' = "w_parse"
  /\ UNCHANGED <<process, server_config, config_file, stderr_file, shutdown_event,
                 pstate, sig, cfgfile, errfile, nlaunch, op, inFail, ncalls, waitOn,
                 ret, mon, bm, env, ver, host, dlg>>

\* _wait_for_ports, lines 242-257: with all the keys the config is captured and the
\* wait succeeds; a missing file, invalid JSON (both caught at line 253) or missing
\* keys make the loop sleep and poll again.
WaitParse ==
  /\ pc = "w_parse"
  /\ IF HasAllKeys(att.saw)
       THEN /\ server_config' = config_file
            /\ att' = [att EXCEPT !.observed = TRUE, !.saw = "-"]
            /\ pc' = "s_ok"
       ELSE /\ server_config' = server_config
            /\ att' = [att EXCEPT !.saw = "-"]
            /\ pc' = "w_poll"
  /\ UNCHANGED <<process, config_file, stderr_file, shutdown_event, pstate, sig, cfgfile,
                 errfile, nlaunch, op, inFail, ncalls, waitOn, ret, mon, bm, env, ver, host, dlg>>

\* What Path.unlink() does to a temporary file of launch f: it removes it (TRUE), or
\* raises and leaves it (FALSE).  It raises on Windows (the platform that forbids
\* removing an open file) while the process launched with f is alive: always when
\* the process holds the file open all its life (its stderr), possibly when it opens
\* the file from time to time (its config file).
UnlinkOutcomes(f, held) ==
  IF bm.platform = "Windows" /\ Alive(f)
    THEN IF held THEN {FALSE} ELSE {TRUE, FALSE}
    ELSE {TRUE}

\* start(), lines 105-113: the stderr file is removed after a successful startup.
\* unlink succeeds and the field becomes None, or it raises (the file is still open
\* in the child on a platform that forbids that) and the bare except swallows it.
StartSucceed ==
  /\ pc = "s_ok"
  /\ IF stderr_file \in Procs /\ errfile[stderr_file]
       THEN \E removed \in UnlinkOutcomes(stderr_file, TRUE) :
              IF removed
                THEN /\ errfile' = [errfile EXCEPT ![stderr_file] = FALSE]
                     /\ stderr_file' = None
                ELSE UNCHANGED <<errfile, stderr_file>>
       ELSE UNCHANGED <<errfile, stderr_file>>
  /\ pc' = "idle"
  /\ ret' = "True"
  /\ att' = NoAttempt
  /\ UNCHANGED <<process, server_config, config_file, shutdown_event, pstate, sig,
                 cfgfile, nlaunch, op, inFail, ncalls, waitOn, mon, bm, env, ver, host, dlg>>

\* stop(), line 122
StopSetEvent ==
  /\ pc = "t_set"
  /\ shutdown_event' = TRUE
  /\ pc' = "t_term"
  /\ UNCHANGED <<process, server_config, config_file, stderr_file, pstate, sig, cfgfile,
                 errfile, nlaunch, op, inFail, ncalls, waitOn, ret, att, mon, bm, env, ver, host, dlg>>

\* stop(), lines 124-134: with a handle, the process is asked to terminate and
\* wait(timeout=5) starts on that Popen object; without one, cleanup follows.
StopTerminate ==
  /\ pc = "t_term"
  /\ IF process = None
       THEN /\ pc' = "t_clean"
            /\ UNCHANGED <<sig, waitOn>>
       ELSE /\ sig' = [sig EXCEPT ![process] =
                         IF Alive(process) /\ @ = "none" THEN "term" ELSE @]
            /\ waitOn' = process
            /\ pc' = "t_wait"
  /\ UNCHANGED <<process, server_config, config_file, stderr_file, shutdown_event,
                 pstate, cfgfile, errfile, nlaunch, op, inFail, ncalls, ret, att, mon, bm, env, ver, host, dlg>>

\* stop(), lines 134-135: wait() returns once the process has exited; while it is
\* alive the grace period may elapse (TimeoutExpired).
StopWait ==
  /\ pc = "t_wait"
  /\ pc' = IF Alive(waitOn) THEN "t_kill" ELSE "t_none"
  /\ UNCHANGED <<process, server_config, config_file, stderr_file, shutdown_event,
                 pstate, sig, cfgfile, errfile, nlaunch, op, inFail, ncalls, waitOn, ret,
                 att, mon, bm, env, ver, host, dlg>>

\* stop(), lines 136-141: self.process.kill() and wait().  self.process is read
\* again: a cleared handle raises AttributeError, which line 140 catches.
StopKill ==
  /\ pc = "t_kill"
  /\ IF process = None
       THEN UNCHANGED <<pstate, sig>>
       ELSE /\ sig' = [sig EXCEPT ![process] = IF Alive(process) THEN "kill" ELSE @]
            /\ pstate' = [pstate EXCEPT ![process] = "exited"]
  /\ pc' = "t_none"
  /\ UNCHANGED <<process, server_config, config_file, stderr_file, shutdown_event,
                 cfgfile, errfile, nlaunch, op, inFail, ncalls, waitOn, ret, att, mon, bm, env, ver, host, dlg>>

\* stop(), line 143
StopClearHandle ==
  /\ pc = "t_none"
  /\ process' = None
  /\ pc' = "t_clean"
  /\ UNCHANGED <<server_config, config_file, stderr_file, shutdown_event, pstate, sig,
                 cfgfile, errfile, nlaunch, op, inFail, ncalls, waitOn, ret, att, mon, bm, env, ver, host, dlg>>

\* stop(), lines 145-159: both files are unlinked when they exist, a failing unlink
\* is swallowed (lines 149, 156), and the captured config is dropped.  Then stop()
\* returns to its caller: start()'s failure path returns False, restart() goes on to
\* start(), a plain stop() is finished.
StopCleanup ==
  /\ pc = "t_clean"
  /\ IF config_file # None /\ cfgfile[config_file]
       THEN \E removed \in UnlinkOutcomes(config_file, FALSE) :
              cfgfile' = [cfgfile EXCEPT ![config_file] = ~removed]
       ELSE cfgfile' = cfgfile
  /\ IF stderr_file \in Procs /\ errfile[stderr_file]
       THEN \E removed \in UnlinkOutcomes(stderr_file, TRUE) :
              errfile' = [errfile EXCEPT ![stderr_file] = ~removed]
       ELSE errfile' = errfile
  /\ server_config' = None
  /\ waitOn' = None
  /\ IF inFail
       THEN pc' = "idle" /\ ret' = "False" /\ inFail' = FALSE /\ att' = NoAttempt
       ELSE IF op = "restart"
         THEN pc' = "s_check" /\ ret' = ret /\ inFail' = inFail /\ att' = att
         ELSE pc' = "idle" /\ ret' = "None" /\ inFail' = inFail /\ att' = NoAttempt
  /\ UNCHANGED <<process, config_file, stderr_file, shutdown_event, pstate, sig,
                 nlaunch, op, ncalls, mon, bm, env, ver, host, dlg>>

\* ----------------------------------------------------------- monitor thread
callerVars == <<pc, op, inFail, ncalls, waitOn, ret, att>>
osVars == <<pstate, sig, cfgfile, errfile, nlaunch>>

\* _monitor_process, line 269: the loop condition.
MonLoop(i) ==
  /\ mon[i].pc = "M1"
  /\ mon' = [mon EXCEPT ![i] = IF shutdown_event THEN [pc |-> "done", polled |-> None]
                                                  ELSE [@ EXCEPT !.pc = "M2"]]
  /\ UNCHANGED <<process, server_config, config_file, stderr_file, shutdown_event,
                 osVars, callerVars, bm, env, ver, host, dlg>>

\* _monitor_process, line 270, left operand: self.process is read; without a handle
\* the thread sleeps (line 290) and loops.
MonReadHandle(i) ==
  /\ mon[i].pc = "M2"
  /\ mon' = [mon EXCEPT ![i].pc = IF process = None THEN "M1" ELSE "M2b"]
  /\ UNCHANGED <<process, server_config, config_file, stderr_file, shutdown_event,
                 osVars, callerVars, bm, env, ver, host, dlg>>

\* _monitor_process, line 270, right operand: self.process is read again and polled.
\* A handle cleared in between raises AttributeError and ends the thread.
MonPoll(i) ==
  /\ mon[i].pc = "M2b"
  /\ mon' = [mon EXCEPT ![i] =
               IF process = None THEN [pc |-> "done", polled |-> None]
               ELSE IF Alive(process) THEN [pc |-> "M1", polled |-> None]
               ELSE [pc |-> "M3", polled |-> process]]
  /\ UNCHANGED <<process, server_config, config_file, stderr_file, shutdown_event,
                 osVars, callerVars, bm, env, ver, host, dlg>>

\* _monitor_process, line 272: the flag is checked again; when it is set the loop
\* breaks (line 288), otherwise the termination is handled as unexpected.
MonCheckFlag(i) ==
  /\ mon[i].pc = "M3"
  /\ mon' = [mon EXCEPT ![i] = IF shutdown_event THEN [pc |-> "done", polled |-> None]
                                                  ELSE [@ EXCEPT !.pc = "M4"]]
  /\ UNCHANGED <<process, server_config, config_file, stderr_file, shutdown_event,
                 osVars, callerVars, bm, env, ver, host, dlg>>

\* _monitor_process, lines 274-282: self.process.returncode and the stderr text are
\* read.  A cleared handle raises AttributeError and ends the thread.
MonCapture(i) ==
  /\ mon[i].pc = "M4"
  /\ mon' = [mon EXCEPT ![i] = IF process = None THEN [pc |-> "done", polled |-> None]
                                                 ELSE [@ EXCEPT !.pc = "M5"]]
  /\ UNCHANGED <<process, server_config, config_file, stderr_file, shutdown_event,
                 osVars, callerVars, bm, env, ver, host, dlg>>

\* _monitor_process, line 285
MonClearHandle(i) ==
  /\ mon[i].pc = "M5"
  /\ process' = None
  /\ mon' = [mon EXCEPT ![i].pc = "M6"]
  /\ UNCHANGED <<server_config, config_file, stderr_file, shutdown_event,
                 osVars, callerVars, bm, env, ver, host, dlg>>

\* a crash branch that forgets to drop the captured endpoints
MonKeepConfig(i) ==
  /\ mon[i].pc = "M6"
  /\ mon' = [mon EXCEPT ![i] = [pc |-> "done", polled |-> None]]
  /\ UNCHANGED <<process, server_config, config_file, stderr_file, shutdown_event,
                 osVars, callerVars, bm, env, ver, host, dlg>>

\* _monitor_process, lines 286-288
MonClearConfig(i) ==
  /\ mon[i].pc = "M6"
  /\ server_config' = None
  /\ mon' = [mon EXCEPT ![i] = [pc |-> "done", polled |-> None]]
  /\ UNCHANGED <<process, config_file, stderr_file, shutdown_event,
                 osVars, callerVars, bm, env, ver, host, dlg>>

\* ------------------------------------------------------ supervised processes
\* A launched process terminates without the supervisor forcing it: it crashes, is
\* killed from outside, or exits (possibly in answer to the termination request).
ProcExit(p) ==
  /\ Alive(p)
  /\ pstate' = [pstate EXCEPT ![p] = "exited"]
  /\ UNCHANGED <<process, server_config, config_file, stderr_file, shutdown_event,
                 sig, cfgfile, errfile, nlaunch, callerVars, mon, bm, env, ver, host, dlg>>

Caller ==
  \/ CallStart \/ CallStop \/ CallRestart
  \/ StartCheck \/ StartCheck2 \/ StartPrepare \/ StartLaunch \/ StartSpawn
  \/ WaitTimeout \/ WaitPoll \/ WaitDied \/ WaitRead \/ WaitParse \/ StartSucceed
  \/ StopSetEvent \/ StopTerminate \/ StopWait \/ StopKill \/ StopClearHandle
  \/ StopCleanup

Monitor(i) ==
  \/ MonLoop(i) \/ MonReadHandle(i) \/ MonPoll(i) \/ MonCheckFlag(i)
  \/ MonCapture(i) \/ MonClearHandle(i) \/ MonClearConfig(i)

Next ==
  \/ Caller
  \/ \E i \in Procs : Monitor(i)
  \/ \E p \in Procs : ProcExit(p)

Spec == Init /\ [][Next]_vars

\* ------------------------------------------------------------ BinaryManager
\* Number of calls of update_binary / _download_binary the host makes.
MaxBMCalls == 2

\* Number of blocks urlretrieve reads for an archive.
MaxChunks == 2

Exists(b, n) == b.disk[n] # Absent

\* subprocess.run([path, "--version"]) of lines 131-139 returns with code 0: the file
\* is there, may be executed (else OSError) and is a completely written binary that
\* runs on this machine.
Answers(b, n) ==
  Exists(b, n) /\ n \in b.xbit /\ <<n, b.disk[n]>> \in b.works

\* A variant of _detect_working_binary_linux that runs the candidates on every call.
_detect_working_binary_linux_uncached(b) ==
  IF b.platform # "Linux" THEN ""
  ELSE IF Answers(b, "langkit") THEN "langkit"
  ELSE IF Answers(b, "langkit-webkit2_41") THEN "langkit-webkit2_41"
  ELSE ""

\* BinaryManager._detect_working_binary_linux (lines 119-150): the cached name, else
\* the first candidate in preference order that exists and answers the probe, else
\* "" (None).
_detect_working_binary_linux(b) ==
  IF b.platform # "Linux" THEN ""
  ELSE IF b.cache # "" THEN b.cache
  ELSE IF Answers(b, "langkit") THEN "langkit"
  ELSE IF Answers(b, "langkit-webkit2_41") THEN "langkit-webkit2_41"
  ELSE ""

\* The candidates a call of _detect_working_binary_linux runs (line 131): none when
\* the cache is filled, else every present candidate up to the first that answers.
Invoked(b) ==
  IF b.platform # "Linux" \/ b.cache # "" THEN {}
  ELSE {n \in {"langkit", "langkit-webkit2_41"} :
          /\ Exists(b, n)
          /\ (n = "langkit-webkit2_41" => ~Answers(b, "langkit"))}

\* the cache after a call of _detect_working_binary_linux (line 142)
CacheAfterDetect(b) ==
  IF _detect_working_binary_linux(b) # "" THEN _detect_working_binary_linux(b)
                                           ELSE b.cache

\* The manager after a call of _detect_working_binary_linux: the cache of line 142,
\* and the variant the call found working when it found one.
AfterDetect(b) ==
  [b EXCEPT !.cache = CacheAfterDetect(b),
            !.seen = IF _detect_working_binary_linux(b) # ""
                       THEN _detect_working_binary_linux(b) ELSE @]

\* BinaryManager.get_local_binary_name (lines 152-168)
get_local_binary_name(b) ==
  IF b.platform = "Darwin" THEN "langkit.app"
  ELSE IF b.platform = "Windows" THEN "langkit-app.exe"
  ELSE _detect_working_binary_linux(b)

\* BinaryManager.check_binary_exists (lines 170-190): with a configured path, whether
\* that path exists; on Linux whether any variant file exists; elsewhere whether the
\* local binary exists.
check_binary_exists(b) ==
  IF b.override # "none" THEN b.override = "present"
  ELSE IF b.platform = "Linux"
    THEN Exists(b, "langkit") \/ Exists(b, "langkit-webkit2_41")
  ELSE Exists(b, get_local_binary_name(b))

\* BinaryManager.get_binary_path_if_exists (lines 192-229): the configured path when
\* it exists; else on Linux the probed variant when its file exists, elsewhere the
\* local binary when it exists; else "None".
get_binary_path_if_exists(b) ==
  IF b.override = "present" THEN "override"
  ELSE IF b.platform = "Linux"
    THEN IF _detect_working_binary_linux(b) # ""
            /\ Exists(b, _detect_working_binary_linux(b))
           THEN _detect_working_binary_linux(b) ELSE "None"
  ELSE IF Exists(b, get_local_binary_name(b)) THEN get_local_binary_name(b)
  ELSE "None"

\* The manager after a call of get_binary_path_if_exists: on Linux without an existing
\* configured path the probe has run (line 206) and the returned variant was made
\* executable (lines 211-212).
AfterPathQuery(b) ==
  IF b.override = "present" \/ b.platform # "Linux" THEN b
  ELSE [AfterDetect(b) EXCEPT
          !.xbit = IF get_binary_path_if_exists(b) # "None"
                     THEN @ \cup {get_binary_path_if_exists(b)} ELSE @]

\* The paths update_binary looks at for a backup, in order: both variants on Linux
\* (line 469), the local name elsewhere (lines 481-483).
BackupCandidates(b) == Candidates(b.platform)

\* The host calls update_binary (the "Update" menu entry).
BMCallUpdate ==
  /\ bm.pc = "idle"
  /\ bm.ncalls < MaxBMCalls
  /\ bm' = [bm EXCEPT !.pc = "u_check", !.op = "update", !.ret = "-", !.why = "-",
                      !.ncalls = @ + 1, !.backed = <<>>, !.k = 0,
                      !.rel = NoRelease, !.bytes = "-", !.cancel = FALSE, !.got = 0,
                      !.pre = bm.disk, !.dpre = bm.disk,
                      !.vpre = bm.last_known_version]
  /\ UNCHANGED <<pmvars, env, ver, host, dlg>>

\* The host calls download_with_confirmation, which it does when check_binary_exists
\* is false (__init__.py lines 169-170 and 278-282), and the user agrees.
BMCallDownload ==
  /\ bm.pc = "idle"
  /\ bm.ncalls < MaxBMCalls
  /\ ~check_binary_exists(bm)
  /\ bm' = [bm EXCEPT !.pc = "d_fetch", !.op = "download", !.ret = "-", !.why = "-",
                      !.ncalls = @ + 1, !.backed = <<>>, !.k = 0,
                      !.rel = NoRelease, !.bytes = "-", !.cancel = FALSE, !.got = 0,
                      !.pre = bm.disk, !.dpre = bm.disk,
                      !.vpre = bm.last_known_version]
  /\ UNCHANGED <<pmvars, env, ver, host, dlg>>

\* The host calls get_binary_path after update_binary returned True (__init__.py
\* lines 333-335): the existing path is returned, and without one _download_binary
\* is entered (lines 234-248).
BMCallGetPath ==
  /\ bm.pc = "idle"
  /\ bm.op = "update" /\ bm.ret = "True"
  /\ bm.ncalls < MaxBMCalls
  /\ IF get_binary_path_if_exists(bm) # "None"
       THEN bm' = [AfterPathQuery(bm) EXCEPT
                     !.op = "getpath", !.ret = get_binary_path_if_exists(bm)]
       ELSE bm' = [AfterPathQuery(bm) EXCEPT
                     !.pc = "d_fetch", !.op = "download", !.ret = "-", !.why = "-",
                     !.ncalls = @ + 1, !.backed = <<>>, !.k = 0,
                     !.rel = NoRelease, !.bytes = "-", !.cancel = FALSE, !.got = 0,
                     !.pre = bm.disk, !.dpre = bm.disk,
                     !.vpre = bm.last_known_version]
  /\ UNCHANGED <<pmvars, env, ver, host, dlg>>

\* The host asks check_binary_exists (__init__.py lines 68, 169, 236, 278).
BMQueryExists ==
  /\ bm.pc = "idle"
  /\ bm' = [bm EXCEPT !.op = "exists",
                      !.ret = IF check_binary_exists(bm) THEN "True" ELSE "False"]
  /\ UNCHANGED <<pmvars, env, ver, host, dlg>>

\* The host asks get_binary_path_if_exists, which it does after check_binary_exists
\* answered true (__init__.py lines 221 and 236-242).
BMQueryPath ==
  /\ bm.pc = "idle"
  /\ check_binary_exists(bm)
  /\ bm' = [AfterPathQuery(bm) EXCEPT
               !.op = "path", !.ret = get_binary_path_if_exists(bm)]
  /\ UNCHANGED <<pmvars, env, ver, host, dlg>>

\* A variant of UpdateCheck that drops the probe cache before it looks for an update.
UpdateCheckClearFirst ==
  /\ bm.pc = "u_check"
  /\ \E t \in Tags \cup {0} :
       IF check_for_updates(IF t = 0 THEN FetchFailed ELSE TagName(t),
                            bm.last_known_version) # NoTag
         THEN bm' = [bm EXCEPT !.pc = "u_backup", !.k = 1, !.cache = ""]
         ELSE bm' = [bm EXCEPT !.pc = "idle", !.ret = "False", !.why = "noupdate",
                               !.cache = ""]
  /\ UNCHANGED <<pmvars, env, ver, host, dlg>>

\* update_binary, lines 455-463: check_for_updates() fetches the release (t = 0: the
\* fetch failed) and compares its tag; without a newer version update_binary
\* returns False, otherwise the probe cache is dropped on Linux.
UpdateCheck ==
  /\ bm.pc = "u_check"
  /\ \E t \in Tags \cup {0} :
       IF check_for_updates(IF t = 0 THEN FetchFailed ELSE TagName(t),
                            bm.last_known_version) # NoTag
         THEN bm' = [bm EXCEPT !.pc = "u_backup", !.k = 1,
                               !.cache = IF bm.platform = "Linux" THEN "" ELSE @]
         ELSE bm' = [bm EXCEPT !.pc = "idle", !.ret = "False", !.why = "noupdate"]
  /\ UNCHANGED <<pmvars, env, ver, host, dlg>>

\* update_binary, lines 465-476 and 481-496: the k-th candidate, when present, is
\* copied over its backup path (a backup left there is removed first) and recorded.
UpdateBackup ==
  /\ bm.pc = "u_backup"
  /\ LET cands == BackupCandidates(bm) IN
       IF bm.k > Len(cands)
         THEN bm' = [bm EXCEPT !.pc = "d_fetch", !.dpre = bm.disk]
         ELSE LET n == cands[bm.k] IN
           IF Exists(bm, n)
             THEN bm' = [bm EXCEPT !.bak[n] = bm.disk[n],
                                   !.bakx = IF n \in bm.xbit THEN @ \cup {n}
                                                             ELSE @ \ {n},
                                   !.backed = Append(@, n),
                                   !.pc = "u_unlink"]
             ELSE bm' = [bm EXCEPT !.k = @ + 1]
  /\ UNCHANGED <<pmvars, env, ver, host, dlg>>

\* update_binary, lines 477-478 and 498-502: the candidate just copied is removed.
UpdateUnlink ==
  /\ bm.pc = "u_unlink"
  /\ bm' = [bm EXCEPT !.disk[BackupCandidates(bm)[bm.k]] = Absent,
                      !.xbit = @ \ {BackupCandidates(bm)[bm.k]},
                      !.k = @ + 1, !.pc = "u_backup"]
  /\ UNCHANGED <<pmvars, env, ver, host, dlg>>

\* What _download_binary does when it returns v ("None" or a path): its progress
\* dialog and transfer are gone, the host gets v, update_binary goes on with lines
\* 506-528.
DownloadReturn(b, v, reason) ==
  IF b.op = "update"
    THEN [b EXCEPT !.pc = IF v # "None" THEN "u_commit" ELSE "u_restore", !.why = reason,
                   !.cancel = FALSE, !.got = 0]
    ELSE [b EXCEPT !.pc = "idle", !.ret = v, !.why = reason,
                   !.cancel = FALSE, !.got = 0]

\* _download_binary, lines 319-337: the release is fetched (or not), and the asset of
\* the platform is looked up in it.
DownloadFetch ==
  /\ bm.pc = "d_fetch"
  /\ \/ bm' = DownloadReturn(bm, "None", "fetch")
     \/ \E r \in Releases(bm.platform) :
          IF r.asset
            THEN bm' = [bm EXCEPT !.rel = r, !.pc = "d_retrieve"]
            ELSE bm' = DownloadReturn(bm, "None", "asset")
  /\ UNCHANGED <<pmvars, env, ver, host, dlg>>

\* The user presses Cancel of the progress dialog.  The click is taken in while the
\* report hook processes events (line 358), so wasCanceled() is true from the hook
\* after that one (line 352).
UserCancel ==
  /\ bm.pc = "d_retrieve"
  /\ ~bm.cancel
  /\ bm' = [bm EXCEPT !.cancel = TRUE]
  /\ UNCHANGED <<pmvars, env, ver, host, dlg>>

\* A variant of download_hook that never looks at the dialog.
download_hook_unchecked(b) == FALSE

\* download_hook (lines 351-358) raises "Download cancelled": the dialog was cancelled.
download_hook(b) == b.cancel

\* _download_binary, lines 345-360 and 433-438: urlretrieve reads the next block,
\* appends it to the temporary file and calls the report hook, which raises when the
\* dialog was cancelled; after the last block the file is complete.  A network error
\* raises as well.  The except-branch removes the temporary file and returns None.
DownloadRetrieve ==
  /\ bm.pc = "d_retrieve"
  /\ \/ /\ bm.got < MaxChunks
        /\ IF download_hook(bm)
             THEN bm' = DownloadReturn([bm EXCEPT !.tmp = FALSE, !.got = @ + 1],
                                       "None", "cancelled")
             ELSE bm' = [bm EXCEPT !.tmp = TRUE, !.got = @ + 1]
     \/ /\ bm.got = MaxChunks
        /\ \E by \in {"good", "bad"} :
             bm' = [bm EXCEPT !.tmp = TRUE, !.bytes = by, !.pc = "d_verify"]
     \/ bm' = DownloadReturn([bm EXCEPT !.tmp = FALSE], "None", "transfer")
  /\ UNCHANGED <<pmvars, env, ver, host, dlg>>

\* The outcome of lines 362-371: whether the downloaded file is accepted.
Accepted(b) ==
  ExpectedHash(b.rel.digest) = "" \/ _verify_checksum(b.bytes, ExpectedHash(b.rel.digest))

\* A variant of DownloadVerify that leaves the temporary file when it rejects it.
DownloadVerifyKeepTemp ==
  /\ bm.pc = "d_verify"
  /\ IF Accepted(bm)
       THEN bm' = [AfterDetect(bm) EXCEPT !.pc = "d_extract"]
       ELSE bm' = DownloadReturn(bm, "None", "checksum")
  /\ UNCHANGED <<pmvars, env, ver, host, dlg>>

\* _download_binary, lines 362-375: with a digest the checksum is verified; on a
\* mismatch the temporary file is removed and None returned.  Otherwise the local
\* name is computed (on Linux a probe, which may fill the cache).
DownloadVerify ==
  /\ bm.pc = "d_verify"
  /\ IF Accepted(bm)
       THEN bm' = [AfterDetect(bm) EXCEPT !.pc = "d_extract"]
       ELSE bm' = DownloadReturn([bm EXCEPT !.tmp = FALSE], "None", "checksum")
  /\ UNCHANGED <<pmvars, env, ver, host, dlg>>

\* The directory after the archive members in `done` were extracted completely and
\* the member `part` ("" for none) was left incomplete.
Extracted(b, done, part) ==
  [n \in Names |-> IF n \in done THEN b.rel.tag
                   ELSE IF n = part THEN Partial(b.rel.tag)
                   ELSE b.disk[n]]

\* The execute bits after that extraction: tarfile gives a completely written member
\* the mode the archive records, and a member left incomplete has none yet.
ExtractedModes(b, done, part) ==
  IF b.platform # "Linux" THEN b.xbit
  ELSE IF b.rel.xmode THEN (b.xbit \ {part}) \cup done
  ELSE b.xbit \ (done \cup {part})

\* _download_binary, lines 377-398 and 433-438: extractall writes the members into
\* binaries_dir and the temporary file is removed; or extractall raises after some
\* members were written (one of them possibly in part) and the except-branch removes
\* the temporary file and returns None.
DownloadExtract ==
  /\ bm.pc = "d_extract"
  /\ \/ bm' = [bm EXCEPT !.disk = Extracted(bm, bm.rel.members, ""),
                         !.xbit = ExtractedModes(bm, bm.rel.members, ""),
                         !.tmp = FALSE, !.pc = "d_final"]
     \/ \E done \in SUBSET bm.rel.members :
        \E part \in (bm.rel.members \ done) \cup {""} :
          /\ done # bm.rel.members
          /\ bm' = DownloadReturn([bm EXCEPT !.disk = Extracted(bm, done, part),
                                             !.xbit = ExtractedModes(bm, done, part),
                                             !.tmp = FALSE], "None", "extract")
  /\ UNCHANGED <<pmvars, env, ver, host, dlg>>

\* The final_path of lines 383-418: the app bundle found in the directory, the fixed
\* Windows name, or on Linux the probed binary and else the first variant present.
FinalPath(b) ==
  IF b.platform = "Darwin"
    THEN IF Exists(b, "langkit.app") THEN "langkit.app" ELSE "None"
  ELSE IF b.platform = "Windows" THEN "langkit-app.exe"
  ELSE IF _detect_working_binary_linux(b) # "" THEN _detect_working_binary_linux(b)
  ELSE IF Exists(b, "langkit") THEN "langkit"
  ELSE IF Exists(b, "langkit-webkit2_41") THEN "langkit-webkit2_41"
  ELSE "None"

\* _download_binary, lines 400-405: on Linux every variant that exists is made
\* executable.
MadeExecutable(b) ==
  IF b.platform # "Linux" THEN b
  ELSE [b EXCEPT !.xbit = @ \cup {n \in {"langkit", "langkit-webkit2_41"} :
                                    Exists(b, n)}]

\* _download_binary, lines 383-431: final_path is determined (on Linux after the
\* chmod loop, by a probe), the release tag is stored as last_known_version and
\* final_path returned.
DownloadFinish ==
  /\ bm.pc = "d_final"
  /\ bm' = DownloadReturn([AfterDetect(MadeExecutable(bm)) EXCEPT
                             !.last_known_version =
                                StoredVersion(TagName(bm.rel.tag))],
                          FinalPath(MadeExecutable(bm)), "-")
  /\ UNCHANGED <<pmvars, env, ver, host, dlg>>

\* update_binary, lines 506-514: the download returned a path; every recorded backup
\* is removed and True returned.
UpdateCommit ==
  /\ bm.pc = "u_commit"
  /\ bm' = [bm EXCEPT !.bak = [n \in Names |-> IF n \in Range(bm.backed) THEN Absent
                                                ELSE bm.bak[n]],
                      !.bakx = @ \ Range(bm.backed),
                      !.pc = "idle", !.ret = "True"]
  /\ UNCHANGED <<pmvars, env, ver, host, dlg>>

\* copytree(backup, original) raises FileExistsError when the original exists (line
\* 520); copy2 overwrites (line 522).
RestoreRaises(b) ==
  \E n \in Range(b.backed) : b.bak[n] # Absent /\ IsDir(n) /\ Exists(b, n)

\* A variant of UpdateRestore that, with no backup recorded, removes what the failed
\* download left in the directory.
UpdateRestoreCleaning ==
  /\ bm.pc = "u_restore"
  /\ IF RestoreRaises(bm)
       THEN bm' = [bm EXCEPT !.pc = "idle", !.ret = "raised"]
       ELSE bm' = [bm EXCEPT
              !.disk = [n \in Names |-> IF bm.backed = <<>> THEN bm.dpre[n]
                                        ELSE IF n \in Range(bm.backed) /\ bm.bak[n] # Absent
                                          THEN bm.bak[n] ELSE bm.disk[n]],
              !.xbit = (@ \ {n \in Range(bm.backed) : bm.bak[n] # Absent})
                       \cup (bm.bakx \cap Range(bm.backed)),
              !.bak = [n \in Names |-> IF n \in Range(bm.backed) THEN Absent
                                       ELSE bm.bak[n]],
              !.bakx = @ \ Range(bm.backed),
              !.pc = "idle", !.ret = "False"]
  /\ UNCHANGED <<pmvars, env, ver, host, dlg>>

\* update_binary, lines 515-528: the download returned None; every recorded backup
\* that exists is copied back over its original and removed, and False returned.  A
\* raising copytree leaves update_binary by its exception.
UpdateRestore ==
  /\ bm.pc = "u_restore"
  /\ IF RestoreRaises(bm)
       THEN bm' = [bm EXCEPT !.pc = "idle", !.ret = "raised"]
       ELSE bm' = [bm EXCEPT
              !.disk = [n \in Names |-> IF n \in Range(bm.backed) /\ bm.bak[n] # Absent
                                          THEN bm.bak[n] ELSE bm.disk[n]],
              !.xbit = (@ \ {n \in Range(bm.backed) : bm.bak[n] # Absent})
                       \cup (bm.bakx \cap Range(bm.backed)),
              !.bak = [n \in Names |-> IF n \in Range(bm.backed) THEN Absent
                                       ELSE bm.bak[n]],
              !.bakx = @ \ Range(bm.backed),
              !.pc = "idle", !.ret = "False"]
  /\ UNCHANGED <<pmvars, env, ver, host, dlg>>

\* What can be installed when the add-on starts: any of the platform's candidates
\* from release 1 (executable, as a download leaves them), with or without a recorded
\* version, any configured path, and for each Linux variant whether the machine has
\* the webkit library it is linked against, which decides the probe of its binaries.
InitBM ==
  /\ InitPM
  /\ \E plat \in Platforms :
     \E inst \in SUBSET Range(Candidates(plat)) :
     \E v \in {NoTag, StoredVersion(TagName(1))} :
     \E o \in Overrides :
     \E libs \in SUBSET (IF plat = "Linux" THEN Range(Candidates(plat)) ELSE {}) :
       bm = [BMFresh(plat) EXCEPT
               !.disk = [n \in Names |-> IF n \in inst THEN 1 ELSE Absent],
               !.last_known_version = v,
               !.override = o,
               !.xbit = IF plat = "Linux" THEN inst ELSE {},
               !.works = libs \X Tags]
  /\ env = DefaultEnv
  /\ ver = NoVer
  /\ host = NoHost
  /\ dlg = NoDlg

NextBM ==
  \/ BMCallUpdate \/ BMCallDownload \/ BMCallGetPath
  \/ BMQueryExists \/ BMQueryPath
  \/ UpdateCheck \/ UpdateBackup \/ UpdateUnlink
  \/ DownloadFetch \/ UserCancel \/ DownloadRetrieve \/ DownloadVerify
  \/ DownloadExtract
  \/ DownloadFinish
  \/ UpdateCommit \/ UpdateRestore

SpecBM == InitBM /\ [][NextBM]_vars

\* The caller thread goes on executing the method it is in, every monitor thread is
\* scheduled again and again (daemon threads of the same interpreter), and the clock
\* advances, so a readiness poll that keeps looping meets its deadline.  Nothing
\* forces the host to make a call or a process to exit.
CallerRuns ==
  \/ StartCheck \/ StartCheck2 \/ StartPrepare \/ StartLaunch \/ StartSpawn
  \/ WaitTimeout \/ WaitPoll \/ WaitDied \/ WaitRead \/ WaitParse \/ StartSucceed
  \/ StopSetEvent \/ StopTerminate \/ StopWait \/ StopKill \/ StopClearHandle
  \/ StopCleanup

FairNext == Next /\ ncalls' <= MaxFairCalls

FairSpec ==
  /\ Init
  /\ [][FairNext]_vars
  /\ WF_vars(CallerRuns)
  /\ SF_vars(WaitTimeout)
  /\ \A i \in Procs : WF_vars(Monitor(i))

\* ------------------------------------------------- any installed binary
\* The same ProcessManager, supervising any binary: whatever exit code, stderr text
\* and reported config the installed server has.  The host makes few calls.
InitEnv ==
  /\ InitPM
  /\ \E plat \in HostPlatforms : bm = BMFresh(plat)
  /\ env \in Envs
  /\ ver = NoVer
  /\ host = NoHost
  /\ dlg = NoDlg

EnvSpec == InitEnv /\ [][FairNext]_vars

\* ------------------------------------------------------ the update check
\* The host asks for updates with some installed version and some latest release...
VerCheck ==
  /\ ver.pc = "off"
  /\ \E latest \in VersionTags \cup {FetchFailed, NullTag},
        current \in VersionTags \cup {NoTag} :
       ver' = [pc |-> "done", latest |-> latest, current |-> current,
               result |-> check_for_updates(latest, current)]
  /\ UNCHANGED <<pmvars, bm, env, host, dlg>>

\* ... and uses the answer.
VerReturn ==
  /\ ver.pc = "done"
  /\ ver' = NoVer
  /\ UNCHANGED <<pmvars, bm, env, host, dlg>>

InitVer ==
  /\ InitPM
  /\ bm = BMFresh("Linux")
  /\ env = DefaultEnv
  /\ ver = NoVer
  /\ host = NoHost
  /\ dlg = NoDlg

NextVer == VerCheck \/ VerReturn

SpecVer == InitVer /\ [][NextVer]_vars

\* ------------------------------------------------------------------ claims
\* A step of the caller thread.
CallerStep == pc' # pc

\* The step in which the public method m returns to the host.
Returns(m) == pc # "idle" /\ pc' = "idle" /\ op = m

\* The step in which start(), called directly or by restart(), returns.
StartReturns == Returns("start") \/ Returns("restart")

\* The caller is between calls, the last call having been m.
Returned(m) == pc = "idle" /\ op = m

\* C2: at most one process launched by the supervisor is alive at any time.
C2_AtMostOneAlive == Cardinality({p \in Procs : Alive(p)}) <= 1

\* C3: when the readiness poll of a start() runs into its deadline, start() returns
\* False and the process it launched is not alive when start() returns.
C3_TimeoutTerminates ==
  [][ (StartReturns /\ att.why = "timeout")
        => (ret' = "False" /\ att.launched # None /\ pstate'[att.launched] # "alive")
    ]_vars

\* C4: when the process of a Running supervisor (start() succeeded, no call in
\* progress) has exited, is_running() is false, and under fair scheduling its handle
\* and the endpoints captured from it are eventually cleared (or replaced by those
\* of a later start()); endpoints are only ever captured by a successful readiness
\* poll.
KilledWhileRunning(p) ==
  pc = "idle" /\ process = p /\ server_config = p /\ pstate[p] = "exited"

C4_CrashDetected ==
  /\ [](\A p \in Procs : KilledWhileRunning(p) => ~is_running)
  /\ \A p \in Procs :
       KilledWhileRunning(p) ~> (process # p /\ server_config # p)
  /\ [][ (server_config' # server_config /\ server_config' # None)
           => (pc = "w_parse" /\ pc' = "s_ok") ]_vars

\* the process of a Running supervisor exited unasked and its monitor has cleared the
\* handle and the endpoints
C4_Witness ==
  /\ pc = "idle" /\ op = "start" /\ ret = "True" /\ ncalls = 1
  /\ process = None /\ server_config = None
  /\ \E p \in Procs :
       pstate[p] = "exited" /\ sig[p] = "none" /\ mon[p].pc = "done"

\* C6: a start() that went on to launch returns True only after its readiness poll
\* saw the config file with all the endpoint keys; a start() that did not see it
\* returns False with the handle and the endpoints cleared and its process not alive.
C6_RunningOnlyIfReady ==
  [][ (StartReturns /\ pc # "s_check2")
        => /\ (ret' = "True") = att.observed
           /\ ~att.observed =>
                /\ process' = None
                /\ server_config' = None
                /\ att.launched # None => pstate'[att.launched] # "alive" ]_vars

\* C7: the flag is set whenever stop() signals a process, and no monitor runs its
\* crash branch (lines 273-286) for a process whose termination stop() asked for.
C7_StopNotReportedAsCrash ==
  [][ /\ (sig' # sig => shutdown_event)
      /\ \A i \in Procs :
           mon'[i].pc = "M4" => sig'[mon'[i].polled] = "none" ]_vars

\* C8: once stop() has returned, the handle and the endpoints are cleared and neither
\* the current RuntimeConfigFile nor the current StderrCapture file is on disk.
C8_StopCleansUp ==
  Returned("stop") =>
    /\ process = None
    /\ server_config = None
    /\ config_file # None => ~cfgfile[config_file]
    /\ stderr_file \in Procs => ~errfile[stderr_file]

\* C9: a stop() called right after a stop() returns normally, never reaches the
\* statements that signal or wait for a process, and none of its steps changes a
\* field of the supervisor, a file on disk or a process.
C9_StopIdempotent ==
  [][ /\ att'.again => pc' \notin {"t_wait", "t_kill", "t_none"}
      /\ (CallerStep /\ att.again) =>
           /\ ret' \in {"-", "None"}
           /\ UNCHANGED <<process, server_config, config_file, stderr_file,
                          shutdown_event, pstate, sig, cfgfile, errfile>> ]_vars

\* C10: stop() forces termination only on a process it first asked to terminate and
\* that is still alive when the grace period has elapsed, and the process stop()
\* signalled has exited when stop() returns.
C10_GracefulThenForced ==
  [][ /\ \A p \in Procs :
           (sig'[p] = "kill" /\ sig[p] # "kill")
              => (sig[p] = "term" /\ Alive(p) /\ pc = "t_kill")
      /\ (Returns("stop") /\ waitOn # None) => pstate'[waitOn] # "alive" ]_vars

\* ---------------------------------------------------------------- C1, C5
NoBackups == \A n \in Names : bm.bak[n] = Absent

\* binaries_dir holds the complete artifact of the release downloaded, nothing else
NewArtifact ==
  /\ bm.rel.tag # 0
  /\ bm.rel.members # {}
  /\ bm.disk = [n \in Names |-> IF n \in bm.rel.members THEN bm.rel.tag ELSE Absent]

\* C1: after update_binary returned (or raised), binaries_dir holds the complete new
\* artifact or exactly the files it held when update_binary was called, and in both
\* cases no backup file; never a mix of old and new files.
C1_UpdateAllOrNothing ==
  (bm.pc = "idle" /\ bm.op = "update") =>
     /\ NoBackups
     /\ (NewArtifact \/ bm.disk = bm.pre)

\* The asset carries a digest and the SHA-256 of the bytes stored differs from it,
\* letter case aside.
DigestDiffers ==
  /\ bm.bytes # "-"
  /\ bm.rel.digest # ""
  /\ ~(bm.bytes = "good" /\ bm.rel.digest \in {"sha256:ab12", "sha256:AB12"})

\* _download_binary has returned to its caller (the host or update_binary)
DownloadReturned ==
  \/ bm.pc = "idle" /\ bm.op = "download"
  \/ bm.pc \in {"u_commit", "u_restore"}

\* C5: when the asset's digest differs from the SHA-256 of the downloaded bytes, then
\* once the verification step is over _download_binary has returned None with the
\* temporary file deleted, no extraction step has run, binaries_dir is as it was when
\* _download_binary was called and last_known_version is unchanged.
C5_MismatchRejected ==
  (DigestDiffers /\ bm.pc # "d_verify") =>
     /\ bm.why = "checksum"
     /\ bm.pc \notin {"d_extract", "d_final", "u_commit"}
     /\ ~bm.tmp
     /\ bm.last_known_version = bm.vpre
     /\ bm.op = "download" => bm.ret = "None"
     /\ DownloadReturned => bm.disk = bm.dpre

\* a download over an installed artifact was rejected for its checksum
C5_Witness ==
  /\ bm.pc = "idle" /\ bm.op = "download" /\ bm.why = "checksum"
  /\ DigestDiffers
  /\ bm.rel.digest = "sha256:AB12"
  /\ \E n \in Names : bm.dpre[n] # Absent

\* C11: when the start() inside a restart() fails, restart() returns False, and at that
\* return is_running() is false, no endpoints are captured and the process that
\* start() launched is not alive (the old instance is the one stop() handled first;
\* it is the new one that can be left behind).
C11_RestartFailsOpen ==
  [][ (Returns("restart") /\ ret' # "True") =>
        /\ ret' = "False"
        /\ ~is_running'
        /\ server_config' = None
        /\ att.launched # None => pstate'[att.launched] # "alive" ]_vars

\* C12: a start() called while the supervised process is running, that process still
\* being alive when start() looks, returns True without doing anything: it goes no
\* further than the check of line 42, and the handle, the endpoints, the files and
\* the monitors are as they were.
C12_StartWhileRunning ==
  [][ (CallerStep /\ op = "start" /\ pc \in {"s_check", "s_check2"}
         /\ att.held # None /\ Alive(att.held)) =>
        /\ pc' = "s_check2" \/ (pc' = "idle" /\ ret' = "True")
        /\ UNCHANGED <<process, server_config, config_file, stderr_file, nlaunch, mon>> ]_vars

\* C13: a launched process that has exited before readiness is observed ends the
\* polling at the next poll (the died branch or the deadline, never another read of
\* the file), is never reported ready (the poll that captures the endpoints has a
\* live process), and makes start() return False.
C13_ExitBeforeReady ==
  [][ /\ (pc = "w_poll" /\ CallerStep /\ pstate[att.launched] = "exited") =>
           pc' \in {"w_died", "t_set"}
      /\ (pc = "w_parse" /\ pc' = "s_ok") => Alive(att.launched)
      /\ (StartReturns /\ att.launched # None /\ ~att.observed
            /\ pstate[att.launched] = "exited") => ret' = "False" ]_vars

\* The monitor thread started for process i is still in its loop.
MonitorLive(i) == mon[i].pc \notin {"off", "done"}

\* C14: at most one monitor loop is live at any time, and once a later process has
\* been launched no monitor started for an earlier process is still live.
C14_OneMonitor ==
  /\ Cardinality({i \in Procs : MonitorLive(i)}) <= 1
  /\ \A i, j \in Procs : (i < j /\ pstate[j] # "new") => ~MonitorLive(i)

\* Process i, which start() reported ready and the supervisor still tracks, terminates
\* in this step without having been signalled and without a stop() under way.
RunningTerminates(i) ==
  /\ Alive(i) /\ pstate'[i] = "exited"
  /\ process = i /\ server_config = i /\ att.launched # i
  /\ sig[i] = "none" /\ ~shutdown_event

\* C15: when a Running process terminates unrequested, the stderr file it wrote to
\* still exists and is the file the monitor's _read_stderr will read (self.stderr_file
\* names it), so that the capture of lines 274-275, made before the handle is cleared,
\* gets the text the process wrote.
C15_CrashCaptured ==
  [][ \A i \in Procs :
        RunningTerminates(i) => (stderr_file = i /\ errfile[i]) ]_vars

\* C18: while the process whose endpoints are captured is alive, the captured
\* endpoints stay what they are or are dropped (by stop() or by crash detection);
\* they never become the endpoints of another capture.
C18_EndpointsImmutable ==
  [][ \A p \in Procs :
        (server_config = p /\ Alive(p)) => server_config' \in {p, None} ]_vars

\* The caller is inside the readiness polling loop of _wait_for_ports.
Polling == pc \in {"w_poll", "w_died", "w_read", "w_parse"}

\* C19: a poll that finds the config file missing, not complete JSON, or without all
\* the endpoint keys goes on to the next poll and fails nothing; the polling makes
\* start() fail only when the deadline has passed or the launched process has exited.
C19_TransientReadsTolerated ==
  [][ /\ (pc = "w_parse" /\ CallerStep /\ ~HasAllKeys(att.saw)) =>
           (pc' = "w_poll" /\ inFail' = inFail)
      /\ (Polling /\ pc' = "t_set") =>
           (att'.why = "timeout" \/ pstate[att.launched] = "exited") ]_vars

\* The stderr text holds one of the known linkage-error substrings, in any letter case.
KnownLinkageText(t) == t \in {"error while loading", "ERROR WHILE LOADING"}

\* C16: when a launched process has exited during the readiness polling and the died
\* branch classifies the failure, the dialog is the missing-libraries one exactly
\* when the exit code of the process is 127 or its stderr text holds a known linkage
\* substring; otherwise it is the generic one.
C16_Classification ==
  [][ (pc = "w_died" /\ pc' = "t_set" /\ pstate[att.launched] = "exited") =>
        /\ att'.why \in {"died: missing libraries", "died: generic"}
        /\ att'.why = "died: missing libraries" <=>
             (env.code = 127 \/ KnownLinkageText(env.text)) ]_vars

\* C17 as stated: once a start() has succeeded (here: the last call was a start() or
\* restart() that returned True, of a server whose config holds the port of its
\* mode), get_frontend_url returns the URL of the captured endpoints, with the
\* combined port in single-port mode and the frontend port otherwise.
C17_UrlAfterSuccess ==
  ((Returned("start") \/ Returned("restart")) /\ ret = "True"
     /\ (env.config.single_port => env.config.port # 0)) =>
    get_frontend_url = IF env.config.single_port THEN Url(env.config.port)
                       ELSE Url(env.config.frontend_port)

\* C17, amended: get_frontend_url returns nothing while no endpoints are captured
\* (before the first successful readiness poll, and again after stop() or crash
\* detection dropped them) or when the captured config lacks the port of its mode;
\* otherwise it returns the URL of the captured endpoints, with the combined port in
\* single-port mode and the frontend port otherwise.  A URL comes to be returned
\* only at a successful readiness poll.
C17_FrontendUrl ==
  [][ /\ get_frontend_url' =
           IF server_config' = None THEN NoUrl
           ELSE IF env.config.single_port
                  THEN IF env.config.port # 0 THEN Url(env.config.port) ELSE NoUrl
                  ELSE Url(env.config.frontend_port)
      /\ (get_frontend_url = NoUrl /\ get_frontend_url' # NoUrl) =>
           (pc = "w_parse" /\ pc' = "s_ok") ]_vars

\* A start() has succeeded in single-port mode and the combined port is served.
C17_Witness ==
  /\ Returned("start") /\ ret = "True"
  /\ env.config.single_port /\ env.config.port # 0
  /\ get_frontend_url = Url(env.config.port)

\* Every segment of the tag is a number.
NumericTag(tag) ==
  \A k \in 1..Len(tag) : IsDigit(tag[k]) \/ tag[k] = "." \/ (k = 1 /\ tag[k] = "v")

\* The integers of the segments of a tag, an unparseable segment counting as 0.
SegmentInts(tag) ==
  LET parts == SplitDots(IF Head(tag) = "v" THEN Tail(tag) ELSE tag, <<>>)
  IN  [k \in 1..Len(parts) |-> IntOf(SelectSeq(parts[k], IsDigit))]

\* A tuple padded with trailing zeros to length n.
Padded(t, n) == [k \in 1..n |-> IF k <= Len(t) THEN t[k] ELSE 0]

\* a is ordered after b when both tuples are padded to the same length
PaddedGreater(a, b) ==
  LET n == IF Len(a) > Len(b) THEN Len(a) ELSE Len(b)
  IN  TupleGreater(Padded(a, n), Padded(b, n))

\* C20: for tags a and b made of numeric segments, check_for_updates offers a over b
\* exactly when the integer tuple of a, padded with trailing zeros, is greater than
\* that of b: "v1.10" is offered over "v1.9", "v2.0.0" is not offered over "v2".
C20_PaddedOrder ==
  (ver.pc = "done" /\ ver.current # NoTag
     /\ NumericTag(ver.latest) /\ NumericTag(ver.current)) =>
    ((ver.result = ver.latest) <=>
       PaddedGreater(SegmentInts(ver.latest), SegmentInts(ver.current)))

\* C21: check_for_updates returns None when the release fetch fails or the tag makes
\* the comparison raise; the remote tag when no last_known_version is stored; and
\* with a stored version the remote tag exactly when it is strictly greater in the
\* numeric-tuple order (missing and unparseable segments counting as 0), else None.
C21_CheckForUpdate ==
  ver.pc = "done" =>
    ver.result =
      IF ver.latest \in {FetchFailed, NullTag} THEN NoTag
      ELSE IF ver.current = NoTag THEN ver.latest
      ELSE IF PaddedGreater(SegmentInts(ver.latest), SegmentInts(ver.current))
        THEN ver.latest
      ELSE NoTag

\* ------------------------------------------------ claims on the artifact manager
\* The download has returned a path: to update_binary (about to commit) or to the host.
DownloadSucceeded ==
  \/ bm.pc = "u_commit"
  \/ bm.pc = "idle" /\ bm.op = "download" /\ bm.ret \notin {"None", "-"}

PreferredVariant ==
  IF Answers(bm, "langkit") THEN "langkit"
  ELSE IF Answers(bm, "langkit-webkit2_41") THEN "langkit-webkit2_41"
  ELSE IF Exists(bm, "langkit") THEN "langkit"
  ELSE "langkit-webkit2_41"

\* C23: on Linux, when a download of an archive holding both candidates has returned
\* a path, every present candidate is executable and the path is the first candidate
\* in preference order that answers the probe, or without one the first that exists.
C23_FirstAnsweringReturned ==
  (/\ bm.pc = "idle" /\ bm.op = "download" /\ bm.ret \notin {"None", "-"}
   /\ bm.platform = "Linux"
   /\ bm.rel.members = {"langkit", "langkit-webkit2_41"})
  => /\ \A n \in {"langkit", "langkit-webkit2_41"} : Exists(bm, n) => n \in bm.xbit
     /\ bm.ret = PreferredVariant

\* C24: in update_binary every present candidate has been copied to its backup before
\* any candidate is removed: when a candidate is about to be unlinked, no candidate
\* that is present is still without a backup.
C24_BackupBeforeRemoval ==
  bm.pc = "u_unlink" =>
    \A n \in Range(BackupCandidates(bm)) :
      Exists(bm, n) => n \in Range(bm.backed) /\ bm.bak[n] = bm.disk[n]

\* C25: once update_binary has returned, no backup file exists, and when it did not
\* succeed every candidate it had backed up is back at its original path as it was.
C25_BackupsSettled ==
  (bm.pc = "idle" /\ bm.op = "update") =>
    /\ \A n \in Names : bm.bak[n] = Absent
    /\ bm.ret # "True" => \A n \in Range(bm.backed) : bm.disk[n] = bm.pre[n]

\* No release is newer than the recorded version: check_for_updates returns None
\* whatever the fetch gives.
NothingNewer ==
  \A t \in Tags : check_for_updates(TagName(t), bm.last_known_version) = NoTag

\* C26: when check_for_updates reports no newer version (the fetch failed, or the
\* release is not newer), update_binary returns False and leaves the artifact files,
\* their modes, the backups, the temporary file, the probe cache and
\* last_known_version as they were, and fetches no release to download; and it takes
\* this way whenever no release is newer.
C26_NoUpdateNoOp ==
  [][bm.pc = "u_check" =>
       /\ NothingNewer => bm'.why = "noupdate"
       /\ bm'.why = "noupdate" =>
            /\ bm'.pc = "idle" /\ bm'.ret = "False"
            /\ bm'.disk = bm.disk /\ bm'.xbit = bm.xbit
            /\ bm'.bak = bm.bak /\ bm'.bakx = bm.bakx /\ bm'.tmp = bm.tmp
            /\ bm'.cache = bm.cache
            /\ bm'.last_known_version = bm.last_known_version
            /\ bm'.rel = NoRelease /\ bm'.backed = <<>>]_vars

\* update_binary returned without an update to make, with a binary installed, the
\* probe cache filled and the newest version recorded
C26_Witness ==
  /\ bm.pc = "idle" /\ bm.op = "update" /\ bm.ret = "False" /\ bm.why = "noupdate"
  /\ bm.cache # "" /\ \E n \in Names : Exists(bm, n)
  /\ NothingNewer

\* C27: when the dialog was cancelled and a block is still to come, the next step of
\* the transfer ends the download with None: the temporary file is removed, and the
\* artifact files are still what the download found (the bytes received were nowhere
\* but in the temporary file), their modes, the probe cache and last_known_version
\* as before.
C27_CancelAborts ==
  [][(bm.pc = "d_retrieve" /\ bm.cancel /\ bm.got < MaxChunks) =>
       /\ bm'.pc = IF bm.op = "update" THEN "u_restore" ELSE "idle"
       /\ bm.op # "update" => bm'.ret = "None"
       /\ bm'.why \in {"cancelled", "transfer"}
       /\ ~bm'.tmp
       /\ bm.disk = bm.dpre /\ bm'.disk = bm.dpre
       /\ bm'.xbit = bm.xbit /\ bm'.cache = bm.cache
       /\ bm'.last_known_version = bm.last_known_version]_vars

\* a cancelled download has returned None, leaving no temporary file
C27_Witness ==
  /\ bm.pc = "idle" /\ bm.op = "download" /\ bm.ret = "None" /\ bm.why = "cancelled"
  /\ ~bm.tmp /\ bm.disk = bm.dpre

\* The local artifact the platform resolves to is present: on Linux the variant the
\* probe selects, elsewhere the platform's local binary.
ResolvedPresent ==
  IF bm.platform = "Linux"
    THEN _detect_working_binary_linux(bm) # ""
         /\ Exists(bm, _detect_working_binary_linux(bm))
    ELSE Exists(bm, get_local_binary_name(bm))

\* C28: check_binary_exists answers true exactly when a configured path exists or the
\* resolved local artifact is present.
C28_ExistsIff ==
  (bm.pc = "idle" /\ bm.op = "exists") =>
    (bm.ret = "True" <=> (bm.override = "present" \/ ResolvedPresent))

\* C29: on Linux, when no candidate passes the probe, check_binary_exists and
\* get_binary_path_if_exists both report that no artifact exists, whatever files are
\* present (no path is configured).
C29_NoWorkingVariantNoArtifact ==
  (/\ bm.pc = "idle" /\ bm.op \in {"exists", "path"}
   /\ bm.platform = "Linux" /\ bm.override = "none"
   /\ _detect_working_binary_linux(bm) = "")
  => bm.ret = IF bm.op = "exists" THEN "False" ELSE "None"

\* C30, as the spec states it: once a probe has succeeded, every later probe of the
\* session finds that same variant.
C30_CachedForSession ==
  [][bm.seen # "" => bm'.seen = bm.seen]_vars

\* update_binary drops the probe cache (lines 461-463).
UpdateClearsCache ==
  bm.pc = "u_check" /\ bm'.pc = "u_backup" /\ bm'.cache = ""

\* C30, amended: a probe with an empty cache caches the first candidate in preference
\* order that answers, and nothing when none answers; while the cache is filled every
\* probe returns the cached variant and runs no candidate; and the cache stays as it
\* is until update_binary drops it.
C30_ProbeCache ==
  [][/\ (bm.cache = "" /\ bm'.cache # "") =>
          /\ Answers(bm', bm'.cache)
          /\ bm'.cache = "langkit-webkit2_41" => ~Answers(bm', "langkit")
          /\ bm'.seen = bm'.cache
     /\ bm.cache # "" =>
          /\ _detect_working_binary_linux(bm) = bm.cache
          /\ Invoked(bm) = {}
          /\ bm.seen = bm.cache
          /\ bm'.cache = bm.cache \/ UpdateClearsCache]_vars

\* after an update that found only the second variant installed, the probe of a path
\* query returns the first variant from the cache
C30_Witness ==
  /\ bm.platform = "Linux" /\ bm.pc = "idle" /\ bm.op \in {"path", "getpath"}
  /\ bm.ret = "langkit" /\ bm.cache = "langkit"
  /\ bm.pre["langkit"] = Absent /\ bm.pre["langkit-webkit2_41"] # Absent

\* C31: when update_binary backed nothing up and its download failed, it returns False
\* without restoring or deleting anything: the artifact files (with whatever the
\* failed download extracted), their modes, the backups and the temporary file stay
\* as the download left them.
C31_NoRollbackWithoutBackup ==
  [][(bm.pc = "u_restore" /\ bm.backed = <<>>) =>
       /\ bm'.pc = "idle" /\ bm'.ret = "False"
       /\ bm'.disk = bm.disk /\ bm'.xbit = bm.xbit
       /\ bm'.bak = bm.bak /\ bm'.bakx = bm.bakx /\ bm'.tmp = bm.tmp]_vars

\* update_binary found no artifact, its download failed in the extraction, and a file
\* that extraction wrote is still in the directory after update_binary returned False
C31_Witness ==
  /\ bm.pc = "idle" /\ bm.op = "update" /\ bm.ret = "False" /\ bm.why = "extract"
  /\ bm.backed = <<>>
  /\ \A n \in Range(BackupCandidates(bm)) : bm.pre[n] = Absent
  /\ \E n \in Names : bm.pre[n] = Absent /\ bm.disk[n] # Absent

\* C32: whenever _download_binary has returned, with a path or with None for whatever
\* reason, the temporary download file does not exist: it exists only while the
\* transfer, the verification or the extraction is under way.
C32_NoTempFileLeft ==
  bm.tmp => bm.pc \in {"d_retrieve", "d_verify", "d_extract"}

\* a download whose temporary file had been written has returned None, for a rejected
\* checksum or a failed extraction, and the temporary file is gone
C32_Witness ==
  /\ bm.pc \in {"idle", "u_restore"} /\ bm.op \in {"download", "update"}
  /\ bm.why \in {"checksum", "extract"}
  /\ bm.bytes # "-" /\ ~bm.tmp

\* _download_binary has returned None, or update_binary has failed.
DownloadOrUpdateFailed ==
  \/ bm.pc = "u_restore"
  \/ bm.pc = "idle" /\ bm.op = "download" /\ bm.ret = "None"
  \/ bm.pc = "idle" /\ bm.op = "update" /\ bm.ret \in {"False", "raised"}

\* C33: whenever _download_binary returned None or update_binary failed,
\* last_known_version has the value it had before the call.
C33_VersionKeptOnFailure ==
  DownloadOrUpdateFailed => bm.last_known_version = bm.vpre

\* C34: the monitor clears the handle only of the process it saw exited, and whenever
\* a launched process is alive the supervisor holds its handle.
C34_NoLiveProcessOrphaned ==
  [][/\ \A i \in Procs :
          (mon[i].pc = "M5" /\ mon'[i].pc = "M6" /\ process # None)
            => process = mon[i].polled
     /\ \A p \in Procs : Alive(p) => process = p]_vars

\* C35: at the step in which start() returns True the supervisor holds a process handle
\* and captured endpoints, and between the calls of the host the endpoints are never
\* held without a process handle.
C35_SuccessHoldsHandleAndEndpoints ==
  [][/\ (StartReturns /\ ret' = "True")
          => (process' # None /\ server_config' # None)
     /\ (pc = "idle" /\ server_config # None) => process # None]_vars

\* C36: when stop() has returned, no config file the supervisor created is on disk.
C36_NoConfigFileLeaked ==
  Returned("stop") => \A p \in Procs : ~cfgfile[p]

\* ------------------------------------------------------- the add-on (host)
\* LangkitAddon of __init__.py owns one BinaryManager and, once a binary is there, one
\* ProcessManager.  Its handlers run on the Qt main thread, one at a time; a handler
\* that calls start(), _download_binary() or update_binary() waits for the call to
\* return.  The monitor threads and the launched processes run meanwhile.

\* Number of times the user opens Langkit (toolbar button or shortcut) in a session.
MaxClicks == 1

\* LangkitAddon after __init__ (lines 33-45), before initialize(): no process manager,
\* no tab, no update check made in this session.
HostFresh(launch, auto) ==
  [pc |-> "boot",
   launch_on_startup |-> launch,          \* config["launch_on_startup"]
   auto_update |-> auto,                  \* config["auto_update"]
   update_checked_this_session |-> FALSE,
   process_manager |-> FALSE,             \* self.process_manager is set
   webview_tab |-> FALSE,                 \* self.webview_tab is set
   timer |-> FALSE,                       \* QTimer.singleShot(1000, _start_server) pending
   clicks |-> 0,
   pmcalls |-> 0, bmcalls |-> 0]          \* the managers' call counts when a call is made

\* the call the handler made of the process manager / binary manager has returned
PMReturned == pc = "idle" /\ ncalls > host.pmcalls
BMReturned == bm.pc = "idle" /\ bm.ncalls > host.bmcalls

\* initialize (lines 47-69): with launch_on_startup and a binary, _start_server is
\* scheduled.
HostInitialize ==
  /\ host.pc = "boot"
  /\ host' = [host EXCEPT !.pc = "idle",
                          !.timer = host.launch_on_startup /\ check_binary_exists(bm)]
  /\ UNCHANGED <<pmvars, bm, env, ver, dlg>>

\* _start_server (lines 233-251), run by the timer: return without a binary, create
\* the process manager if needed, return when the server runs, else call start().
HostStartServer ==
  /\ host.pc = "idle"
  /\ host.timer
  /\ IF ~check_binary_exists(bm)
       THEN /\ host' = [host EXCEPT !.timer = FALSE]
            /\ bm' = bm
       ELSE IF ~host.process_manager
         THEN /\ bm' = AfterPathQuery(bm)
              /\ host' = [host EXCEPT
                   !.timer = FALSE,
                   !.process_manager = get_binary_path_if_exists(bm) # "None",
                   !.pmcalls = ncalls,
                   !.pc = IF get_binary_path_if_exists(bm) # "None" /\ ~is_running
                            THEN "ss_start" ELSE "idle"]
         ELSE /\ bm' = bm
              /\ host' = [host EXCEPT
                   !.timer = FALSE,
                   !.pmcalls = ncalls,
                   !.pc = IF is_running THEN "idle" ELSE "ss_start"]
  /\ UNCHANGED <<pmvars, env, ver, dlg>>

\* _start_server, line 251: process_manager.start()
HostStartServerCall ==
  /\ host.pc = "ss_start"
  /\ ncalls = host.pmcalls
  /\ CallStart

\* _start_server, lines 251-254: start() returned, a message is shown
HostStartServerReturn ==
  /\ host.pc = "ss_start"
  /\ PMReturned
  /\ host' = [host EXCEPT !.pc = "idle"]
  /\ UNCHANGED <<pmvars, bm, env, ver, dlg>>

\* _on_open_langkit (lines 166-187): without a binary the download is proposed; with
\* one, the first click of a session with auto_update checks for updates; else the
\* handler goes on to the process manager and the tab.
HostOpen ==
  /\ host.pc = "idle"
  /\ host.clicks < MaxClicks
  /\ IF ~check_binary_exists(bm)
       THEN host' = [host EXCEPT !.clicks = @ + 1, !.pc = "o_confirm"]
       ELSE IF host.auto_update /\ ~host.update_checked_this_session
         THEN host' = [host EXCEPT !.clicks = @ + 1, !.pc = "o_check",
                                   !.update_checked_this_session = TRUE]
         ELSE host' = [host EXCEPT !.clicks = @ + 1, !.pc = "o_ensure"]
  /\ UNCHANGED <<pmvars, bm, env, ver, dlg>>

\* download_with_confirmation (binary_manager.py lines 251-277): the user answers
\* the "Setup Required" question; with No the handler returns (lines 171-173).  The
\* handler replaces self.process_manager after the download (line 181): the sessions
\* explored are those that had none.
HostConfirmDownload ==
  /\ host.pc = "o_confirm"
  /\ ~host.process_manager
  /\ \E yes \in BOOLEAN :
       host' = [host EXCEPT !.pc = IF yes THEN "o_download" ELSE "idle",
                            !.bmcalls = bm.ncalls]
  /\ UNCHANGED <<pmvars, bm, env, ver, dlg>>

\* download_with_confirmation, line 275: _download_binary()
HostDownloadCall ==
  /\ host.pc = "o_download"
  /\ bm.ncalls = host.bmcalls
  /\ BMCallDownload

\* _on_open_langkit, lines 170-184: without a path the handler returns, else it
\* creates the process manager and the tab and goes on to show().
HostDownloadReturn ==
  /\ host.pc = "o_download"
  /\ BMReturned
  /\ IF bm.ret = "None"
       THEN host' = [host EXCEPT !.pc = "idle"]
       ELSE host' = [host EXCEPT !.pc = "o_show", !.process_manager = TRUE,
                                 !.webview_tab = TRUE]
  /\ UNCHANGED <<pmvars, bm, env, ver, dlg>>

\* _on_open_langkit, lines 189-205: check_for_updates() fetches the release (t = 0:
\* the fetch failed); with a newer version the user is asked, and with Yes
\* update_binary() is called.
HostCheckUpdates ==
  /\ host.pc = "o_check"
  /\ \E t \in Tags \cup {0}, yes \in BOOLEAN :
       IF /\ check_for_updates(IF t = 0 THEN FetchFailed ELSE TagName(t),
                               bm.last_known_version) # NoTag
          /\ yes
         THEN host' = [host EXCEPT !.pc = "o_update", !.bmcalls = bm.ncalls]
         ELSE host' = [host EXCEPT !.pc = "o_ensure"]
  /\ UNCHANGED <<pmvars, bm, env, ver, dlg>>

\* _on_open_langkit, line 207: update_binary()
HostUpdateCall ==
  /\ host.pc = "o_update"
  /\ bm.ncalls = host.bmcalls
  /\ BMCallUpdate

\* _on_open_langkit, lines 207-214: after a successful update the handler returns;
\* after a failed one it goes on with the old version; an exception of update_binary
\* ends the handler.
HostUpdateReturn ==
  /\ host.pc = "o_update"
  /\ BMReturned
  /\ host' = [host EXCEPT !.pc = IF bm.ret = "False" THEN "o_ensure" ELSE "idle"]
  /\ UNCHANGED <<pmvars, bm, env, ver, dlg>>

\* _on_open_langkit, lines 219-230: create the process manager from
\* get_binary_path_if_exists() if there is none, the tab if there is none and a
\* process manager exists, and show the tab if there is one.
HostEnsure ==
  /\ host.pc = "o_ensure"
  /\ IF host.process_manager
       THEN /\ bm' = bm
            /\ host' = [host EXCEPT !.webview_tab = TRUE, !.pc = "o_show"]
       ELSE /\ bm' = AfterPathQuery(bm)
            /\ host' = [host EXCEPT
                 !.process_manager = get_binary_path_if_exists(bm) # "None",
                 !.webview_tab = @ \/ get_binary_path_if_exists(bm) # "None",
                 !.pc = IF host.webview_tab \/ get_binary_path_if_exists(bm) # "None"
                          THEN "o_show" ELSE "idle"]
  /\ UNCHANGED <<pmvars, env, ver, dlg>>

\* LangkitTab.show (webview_tab.py lines 214-231), the tab being hidden: start() is
\* called unless the server runs.
HostShow ==
  /\ host.pc = "o_show"
  /\ host' = [host EXCEPT !.pc = IF is_running THEN "idle" ELSE "o_start",
                          !.pmcalls = ncalls]
  /\ UNCHANGED <<pmvars, bm, env, ver, dlg>>

\* LangkitTab.show, line 225: process_manager.start()
HostShowCall ==
  /\ host.pc = "o_start"
  /\ ncalls = host.pmcalls
  /\ CallStart

\* LangkitTab.show, lines 225-231: start() returned
HostShowReturn ==
  /\ host.pc = "o_start"
  /\ PMReturned
  /\ host' = [host EXCEPT !.pc = "idle"]
  /\ UNCHANGED <<pmvars, bm, env, ver, dlg>>

\* The add-on starts on a host whose binaries directory is empty or holds the first
\* variant of release 1, recorded as installed, every variant running on the host.
InitHost ==
  /\ InitPM
  /\ \E plat \in HostPlatforms, installed \in BOOLEAN :
       bm = [BMFresh(plat) EXCEPT
               !.disk = [n \in Names |->
                           IF installed /\ n = Candidates(plat)[1] THEN 1 ELSE Absent],
               !.last_known_version =
                  IF installed THEN StoredVersion(TagName(1)) ELSE NoTag,
               !.xbit = IF installed /\ plat = "Linux" THEN {Candidates(plat)[1]} ELSE {},
               !.works = (IF plat = "Linux" THEN Range(Candidates(plat)) ELSE {}) \X Tags]
  /\ env = DefaultEnv
  /\ ver = NoVer
  /\ \E launch \in BOOLEAN, auto \in BOOLEAN : host = HostFresh(launch, auto)
  /\ dlg = NoDlg

\* the steps inside start()
PMRuns ==
  \/ StartCheck \/ StartCheck2 \/ StartPrepare \/ StartLaunch \/ StartSpawn
  \/ WaitTimeout \/ WaitPoll \/ WaitDied \/ WaitRead \/ WaitParse \/ StartSucceed

\* the steps inside update_binary() and _download_binary()
BMRuns ==
  \/ UpdateCheck \/ UpdateBackup \/ UpdateUnlink
  \/ DownloadFetch \/ UserCancel \/ DownloadRetrieve \/ DownloadVerify
  \/ DownloadExtract
  \/ DownloadFinish
  \/ UpdateCommit \/ UpdateRestore

NextHost ==
  \/ HostInitialize
  \/ HostStartServer \/ HostStartServerCall \/ HostStartServerReturn
  \/ HostOpen \/ HostConfirmDownload \/ HostDownloadCall \/ HostDownloadReturn
  \/ HostCheckUpdates \/ HostUpdateCall \/ HostUpdateReturn
  \/ HostEnsure \/ HostShow \/ HostShowCall \/ HostShowReturn
  \/ PMRuns
  \/ BMRuns
  \/ \E i \in Procs : Monitor(i)
  \/ \E p \in Procs : ProcExit(p)

SpecHost == InitHost /\ [][NextHost]_vars

\* The update transaction changes the binaries directory: it backs up, removes,
\* replaces or restores an artifact.
UpdateTouchesArtifact ==
  /\ bm.op = "update"
  /\ bm'.disk # bm.disk \/ bm'.bak # bm.bak

\* C37: the host serializes update against supervision: whenever update_binary(),
\* called by a handler of the add-on, backs up, removes or replaces the artifact, the
\* supervised process is not running.
C37_UpdateSerialized ==
  [][UpdateTouchesArtifact => ~is_running]_vars

\* --------------------------------------- a check after an installed release
\* The tags a release can carry: the version tags, the same with a doubled "v", and
\* the tag that is nothing but "v".
ReleaseTags ==
  VersionTags \cup {<<"v">> \o t : t \in VersionTags} \cup {<<"v">>}

\* _download_binary installs a release with some tag and records its version
\* (line 428) before it returns the path ...
RelInstall ==
  /\ ver.pc = "off"
  /\ \E tag_name \in ReleaseTags :
       ver' = [pc |-> "installed", tag_name |-> tag_name,
               last_known_version |-> StoredVersion(tag_name)]
  /\ UNCHANGED <<pmvars, bm, env, host, dlg>>

\* ... and the host then calls check_for_updates (lines 279-299) while the latest
\* release is still that one.
RelCheck ==
  /\ ver.pc = "installed"
  /\ ver' = [pc |-> "checked", tag_name |-> ver.tag_name,
             last_known_version |-> ver.last_known_version,
             result |-> check_for_updates(ver.tag_name, ver.last_known_version)]
  /\ UNCHANGED <<pmvars, bm, env, host, dlg>>

RelReturn ==
  /\ ver.pc = "checked"
  /\ ver' = NoVer
  /\ UNCHANGED <<pmvars, bm, env, host, dlg>>

NextRel == RelInstall \/ RelCheck \/ RelReturn

SpecRel == InitVer /\ [][NextRel]_vars

\* C38: after a download that succeeded against a release, check_for_updates against
\* the same release returns None, whatever the release's tag.
C38_InstalledNotOfferedAgain ==
  ver.pc = "checked" => ver.result = NoTag

\* The same for the tags that keep a character after their leading "v"s.
C38_HoldsWithAVersionLeft ==
  (ver.pc = "checked" /\ ver.last_known_version # NoTag) => ver.result = NoTag

\* update_binary() returned True after it put an artifact of the release it fetched
\* into the binaries directory, a version being recorded before the call.
UpdateInstalled ==
  /\ bm.pc = "idle" /\ bm.op = "update" /\ bm.ret = "True"
  /\ bm.vpre # NoTag
  /\ bm.override = "none"
  /\ \E n \in Names : bm.disk[n] = bm.rel.tag

\* C39: an update_binary() that returns True has installed a version newer than the
\* one recorded before it: the release fetched for the download is the one the check
\* reported as newer.
C39_UpdateInstallsNewer ==
  UpdateInstalled
     => /\ Newer(TagName(bm.rel.tag), bm.vpre)
        /\ Newer(bm.last_known_version, bm.vpre)

\* ---------------------------------------------------------- the dialog relay
\* ipc_server.py: the HTTP server thread (one HTTPServer, serve_forever: one request
\* at a time) handles a dialog request in DialogHandler.show_*_dialog, which hands the
\* dialog to the Qt main thread by a signal and waits on the event of the one
\* DialogSignalHandler; the slot of the signal runs on the main thread, shows the
\* dialog and leaves its result in the handler's one result slot.

\* Number of dialog requests the server sends in a session.
MaxRequests == 3

Requests == 1..MaxRequests

\* DialogSignalHandler.__init__ (lines 104-106) and an idle server thread: result
\* None (0), the event unset, no signal queued, no dialog open.
DlgFresh ==
  [pc |-> "idle",        \* the server thread's place in show_*_dialog
   req |-> 0,            \* the request it handles
   nreq |-> 0,
   result |-> 0,         \* signal_handler.result: None, or the result of dialog k
   result_event |-> FALSE,
   queued |-> <<>>,      \* signals emitted and not yet delivered to their slot
   dialog |-> 0,         \* the dialog open on the main thread
   assigned |-> FALSE,   \* its slot has set self.result and not yet the event
   returned |-> 0,       \* the result the request returned
   timeout |-> FALSE]    \* it returned the 'Dialog timeout' error instead

\* A POST /dialog/... arrives (do_POST, lines 31-49) and show_*_dialog is entered.
DlgRequest ==
  /\ dlg.pc = "idle"
  /\ dlg.nreq < MaxRequests
  /\ dlg' = [dlg EXCEPT !.pc = "clear", !.nreq = @ + 1, !.req = dlg.nreq + 1,
                        !.returned = 0, !.timeout = FALSE]
  /\ UNCHANGED <<pmvars, bm, env, ver, host>>

\* line 289: self.signal_handler.result_event.clear()
DlgClear ==
  /\ dlg.pc = "clear"
  /\ dlg' = [dlg EXCEPT !.pc = "reset", !.result_event = FALSE]
  /\ UNCHANGED <<pmvars, bm, env, ver, host>>

\* line 290: self.signal_handler.result = None
DlgReset ==
  /\ dlg.pc = "reset"
  /\ dlg' = [dlg EXCEPT !.pc = "emit", !.result = 0]
  /\ UNCHANGED <<pmvars, bm, env, ver, host>>

\* line 293: the signal is emitted; its slot is queued for the main thread
DlgEmit ==
  /\ dlg.pc = "emit"
  /\ dlg' = [dlg EXCEPT !.pc = "wait", !.queued = Append(@, dlg.req)]
  /\ UNCHANGED <<pmvars, bm, env, ver, host>>

\* line 296: result_event.wait(timeout=120) returns True, the event being set
DlgWake ==
  /\ dlg.pc = "wait"
  /\ dlg.result_event
  /\ dlg' = [dlg EXCEPT !.pc = "read"]
  /\ UNCHANGED <<pmvars, bm, env, ver, host>>

\* line 297: return self.signal_handler.result
DlgReturn ==
  /\ dlg.pc = "read"
  /\ dlg' = [dlg EXCEPT !.pc = "idle", !.returned = dlg.result]
  /\ UNCHANGED <<pmvars, bm, env, ver, host>>

\* lines 296-299: the wait times out, the event still unset
DlgTimedOut ==
  /\ dlg.pc = "wait"
  /\ ~dlg.result_event
  /\ dlg' = [dlg EXCEPT !.pc = "idle", !.timeout = TRUE]
  /\ UNCHANGED <<pmvars, bm, env, ver, host>>

\* The main thread delivers the next queued signal: the slot (lines 113-138) opens
\* its dialog.  The slots run one after the other.
SlotOpen ==
  /\ dlg.dialog = 0
  /\ dlg.queued # <<>>
  /\ dlg' = [dlg EXCEPT !.dialog = Head(dlg.queued), !.queued = Tail(@)]
  /\ UNCHANGED <<pmvars, bm, env, ver, host>>

\* lines 133-142: the user closes the dialog and the slot stores its result
SlotAssign ==
  /\ dlg.dialog # 0
  /\ ~dlg.assigned
  /\ dlg' = [dlg EXCEPT !.result = dlg.dialog, !.assigned = TRUE]
  /\ UNCHANGED <<pmvars, bm, env, ver, host>>

\* lines 143-144: finally: self.result_event.set()
SlotSet ==
  /\ dlg.dialog # 0
  /\ dlg.assigned
  /\ dlg' = [dlg EXCEPT !.result_event = TRUE, !.dialog = 0, !.assigned = FALSE]
  /\ UNCHANGED <<pmvars, bm, env, ver, host>>

InitDlg ==
  /\ InitPM
  /\ bm = BMFresh("Linux")
  /\ env = DefaultEnv
  /\ ver = NoVer
  /\ host = NoHost
  /\ dlg = DlgFresh

NextDlg ==
  \/ DlgRequest \/ DlgClear \/ DlgReset \/ DlgEmit
  \/ DlgWake \/ DlgReturn \/ DlgTimedOut
  \/ SlotOpen \/ SlotAssign \/ SlotSet

SpecDlg == InitDlg /\ [][NextDlg]_vars

\* C40: a dialog request that returns a result returns the result of the dialog it
\* opened itself, never the result left by the dialog of an earlier request.
C40_OwnDialogResult ==
  (dlg.pc = "idle" /\ dlg.req # 0 /\ ~dlg.timeout)
     => dlg.returned = dlg.req

====
